---------------------------- MODULE Spec2Model ----------------------------
(***************************************************************************)
(* A model of documind's vector indexing and similarity-search core:       *)
(*   backend/app/services/vector_search_service.py  (VectorSearchService)  *)
(*   backend/app/api/search.py                      (search_documents)     *)
(*   backend/app/services/document_processor.py     (DocumentProcessor)    *)
(*                                                                         *)
(* Similarities are fixed-point numbers in units of 1e-5 (Unit = 1.0).     *)
(* Embeddings are 2-dimensional integer vectors with integer norms, so     *)
(* that the cosine is an exact quotient.                                   *)
(***************************************************************************)
EXTENDS Integers, Sequences, FiniteSets, TLC

(***************************************************************************)
(* Bounds of the model.                                                    *)
(***************************************************************************)
MaxRequests == 2
MaxAdds == 1
MaxBatch == 2
MaxReindex == 1
\* response times recorded by the worker processes
MaxSamples == 1003
\* search requests of the run that counts cache hits
MaxSearches == 4
\* documents handed to one process_documents_batch
MaxDocs == 5
\* records in the store that the fallback search scans
MaxStored == 102

(***************************************************************************)
(* Program constants.                                                      *)
(***************************************************************************)
\* vector_search_service.py:324  `if similarity >= 0.1`, in units of 1e-5
MinSimilarity == 10000
\* vector_search_service.py:299  `if processed_count >= 100: break`
MaxProcessed == 100
\* vector_search_service.py:547  `matched_topics = list(demo_content.items())[:3]`
DemoTopics == 3
\* vector_search_service.py:223-238  the five entries of `query_syntaxes`
QuerySyntaxes == 5

\* IEEE 754 binary32, the dtype np.float32 of vector_search_service.py:442
FractionBits == 23
ExponentBias == 127
\* the integers of the model have magnitudes below 2^MaxExponent
MaxExponent == 30
OutOfRange == 1073741824

\* search.py:133 and 323: LTRIM stats:response_times 0 999
ResponseTimesEnd == 999
\* utils/cache.py:37  `if len(key_data) > 200`
KeyDataLimit == 200
\* document_processor.py:371  `MAX_CONCURRENT_DOCS = 3`
MaxConcurrentDocs == 3
\* config.py:37  `embedding_dimensions: int = 1536`, scaled to the two
\* components of the model's OpenAI embeddings
EmbeddingDimensions == 2
\* config.py:64  `search_cache_ttl: int = 1800`
SearchCacheTtl == 1800

Unit == 10 * 10000

DocIds == {"d1", "d2"}
ChunkIds == {"c1", "c2", "c3"}
Texts == {"ta", "tb", "to"}
NoRecord == [absent |-> TRUE]

Min(a, b) == IF a <= b THEN a ELSE b

(***************************************************************************)
(* State.                                                                  *)
(***************************************************************************)
VARIABLES
    vectors,          \* the hashes vector:{chunk_id}
    documents,        \* the JSON values doc:{doc_id}
    doc_chunks,       \* the JSON values doc:chunks:{doc_id}
    doc_chunk,        \* the chunk ids c with a JSON value doc:chunk:{c}
    doc_index,        \* the set doc:index
    search_cache,     \* the strings search_cache:{md5 of the request}
    stats,            \* the counters stats:*
    response_times,   \* the list stats:response_times, newest sample first
    store_client,     \* RedisClient: its connection, the client it holds, the JSON values
    embedding_cache,  \* EmbeddingService.embedding_cache (texts embedded)
    initialized,      \* VectorSearchService.initialized
    processing_status,\* DocumentProcessor.processing_status
    background_tasks, \* queued _update_search_analytics tasks
    issued,           \* uuid4 values handed out so far (doc and chunk ids)
    prior,            \* per request: the responses since its cache entry was last removed
    last,             \* the last search response
    last_add,         \* the last add_document_vectors call and its outcome
    last_delete,      \* the last delete_document call and its outcome
    deleted,          \* doc_ids whose deletion was reported successful
    calls,            \* requests answered, requests answered from the cache, batches added
    embedding_method, \* the provider generate_embedding selects: "openai" or "local"
    vector_index,     \* the search index doc_vectors of the store
    searching,        \* per task: the search request it is in the middle of
    adding,           \* per writer: the add_document_vectors call it is in the middle of
    last_call         \* the last call of a utility method and its outcome

vars == << vectors, documents, doc_chunks, doc_chunk, doc_index, search_cache, stats,
           response_times, store_client,
           embedding_cache, initialized, processing_status, background_tasks,
           issued, prior, last, last_add, last_delete, deleted, calls,
           embedding_method, vector_index, searching, adding, last_call >>

\* calls in flight
inflight == << searching, adding >>

(***************************************************************************)
(* The embedding collaborator: a deterministic map text -> vector.         *)
(* "to" is orthogonal to "ta"; any other text has the all-zero embedding.  *)
(* The OpenAI model returns vectors of settings.embedding_dimensions       *)
(* components, the local model all-MiniLM-L6-v2 shorter ones.              *)
(***************************************************************************)
Methods == {"openai", "local"}

EmbedWith(method, t) ==
    IF method = "local"
    THEN CASE t = "ta" -> <<1>>
           [] t = "tb" -> <<1>>
           [] t = "to" -> <<-1>>
           [] OTHER    -> <<0>>
    ELSE CASE t = "ta" -> <<3, 4>>
           [] t = "tb" -> <<5, 12>>
           [] t = "to" -> <<-4, 3>>
           [] OTHER    -> <<0, 0>>

\* generate_embedding(text, "auto"): the provider chosen at start-up
Embed(t) == EmbedWith(embedding_method, t)

(***************************************************************************)
(* Vector encoding as add_document_vectors writes it (float32 bytes,       *)
(* base64 text) and as _execute_fallback_search reads it back.             *)
(***************************************************************************)
EncodeVector(v) == [fmt |-> "b64f32", data |-> v]

DecodeOk(x) == x.fmt = "b64f32"

\* _serialize_vector (vector_search_service.py:438-452): the only place
\* that compares a vector's length with settings.embedding_dimensions
SerializeRaises(v) == Len(v) # EmbeddingDimensions

(***************************************************************************)
(* float32 as numpy stores it: 1 sign bit, 8 exponent bits (bias 127), 23  *)
(* fraction bits, rounding to nearest, ties to even.  The components of    *)
(* the model are integers; a float32 is kept as its four bytes, most       *)
(* significant first.                                                      *)
(***************************************************************************)
RECURSIVE Pow2(_)
Pow2(n) == IF n = 0 THEN 1 ELSE 2 * Pow2(n - 1)

Abs(x) == IF x < 0 THEN 0 - x ELSE x

\* the largest e with 2^e <= a, for a > 0
RECURSIVE Exponent(_)
Exponent(a) == IF a < 2 THEN 0 ELSE 1 + Exponent(a \div 2)

\* the 24-bit significand of a > 0 and its exponent after rounding
Significand(a) ==
    LET e == Exponent(a)
    IN IF e <= FractionBits
       THEN [m |-> a * Pow2(FractionBits - e), e |-> e]
       ELSE LET unit == Pow2(e - FractionBits)
                q == a \div unit
                rest == a % unit
                up == 2 * rest > unit \/ (2 * rest = unit /\ q % 2 = 1)
                m == IF up THEN q + 1 ELSE q
            IN IF m = Pow2(FractionBits + 1)
               THEN [m |-> Pow2(FractionBits), e |-> e + 1]
               ELSE [m |-> m, e |-> e]

Float32(x) ==
    IF x = 0 THEN <<0, 0, 0, 0>>
    ELSE LET s == Significand(Abs(x))
             biased == s.e + ExponentBias
             fraction == s.m - Pow2(FractionBits)
         IN << (IF x < 0 THEN 128 ELSE 0) + biased \div 2,
               (biased % 2) * 128 + fraction \div 65536,
               (fraction \div 256) % 256,
               fraction % 256 >>

\* the value of a float32; the integer part where it is not an integer,
\* 0 for a subnormal, OutOfRange for a magnitude of 2^30 or more, for an
\* infinity and for a NaN
Float32Value(b) ==
    LET biased == (b[1] % 128) * 2 + b[2] \div 128
        m == Pow2(FractionBits) + (b[2] % 128) * 65536 + b[3] * 256 + b[4]
        e == biased - ExponentBias
        magnitude == IF biased = 0 \/ e < 0 THEN 0
                     ELSE IF e <= FractionBits THEN m \div Pow2(FractionBits - e)
                     ELSE IF e < MaxExponent THEN m * Pow2(e - FractionBits)
                     ELSE OutOfRange
    IN IF b[1] >= 128 THEN 0 - magnitude ELSE magnitude

BigEndian(b) == b

\* '<f4': least significant byte first
LittleEndian(b) == <<b[4], b[3], b[2], b[1]>>

RECURSIVE ToBytes(_)
ToBytes(v) ==
    IF v = <<>> THEN <<>> ELSE LittleEndian(Float32(Head(v))) \o ToBytes(Tail(v))

\* np.frombuffer(bytes, dtype=np.float32) on a little-endian host; a
\* buffer whose size is no multiple of 4 raises
FromBufferRaises(bytes) == Len(bytes) % 4 # 0

FromBuffer(bytes) ==
    [i \in 1..(Len(bytes) \div 4) |->
        Float32Value(<<bytes[4 * i], bytes[4 * i - 1], bytes[4 * i - 2], bytes[4 * i - 3]>>)]

SerializeVector(v) == [fmt |-> "f32le", data |-> ToBytes(v)]

\* _deserialize_vector (vector_search_service.py:454-469); struct.unpack
\* raises for the buffers for which np.frombuffer raises
DeserializeRaises(x) == FromBufferRaises(x.data)

DeserializeVector(x) == FromBuffer(x.data)

DecodeVector(x) == x.data

RECURSIVE Dot(_, _)
Dot(a, b) == IF a = <<>> THEN 0 ELSE Head(a) * Head(b) + Dot(Tail(a), Tail(b))

RECURSIVE ISqrtFrom(_, _)
ISqrtFrom(n, r) == IF (r + 1) * (r + 1) > n THEN r ELSE ISqrtFrom(n, r + 1)

ISqrt(n) == ISqrtFrom(n, 0)

Norm(a) == ISqrt(Dot(a, a))

(***************************************************************************)
(* VectorSearchService._calculate_cosine_similarity is called at           *)
(* vector_search_service.py:322 but is defined in no file of the           *)
(* repository.  It is modelled from the specification (section 4.4):       *)
(* dot(a,b) / (|a| * |b|), and 0.0 when either norm is zero.               *)
(***************************************************************************)
CalculateCosineSimilarity(a, b) ==
    IF Norm(a) * Norm(b) = 0 THEN 0
    ELSE (Dot(a, b) * Unit) \div (Norm(a) * Norm(b))

(***************************************************************************)
(* EmbeddingService.calculate_similarity (embedding_service.py:305-323).   *)
(* np.dot raises for arrays of different lengths, and the except clause    *)
(* answers 0.0.  A float division of 0.0 by 0.0 gives NaN.                 *)
(***************************************************************************)
NaN == 0 - 2 * Unit

Divide(n, d) == IF d = 0 THEN NaN ELSE (n * Unit) \div d

NeverZero(norms) == FALSE

IsZero(norms) == norms = 0

CalculateSimilarity(v1, v2) ==
    IF Len(v1) # Len(v2) THEN 0
    ELSE LET dot_product == Dot(v1, v2)
             norms == Norm(v1) * Norm(v2)
         IN IF IsZero(norms) THEN 0 ELSE Divide(dot_product, norms)

\* the dot product of two arrays of different lengths is not defined: the
\* call raises inside the per-record try of the scan
CosineRaises(a, b) == Len(a) # Len(b)

\* round(similarity, 4): to the nearest multiple of 1e-4 (10 units)
Round4(s) == ((s + 5) \div 10) * 10

(***************************************************************************)
(* list.sort(key=..., reverse=True): a stable sort, descending by `field`. *)
(***************************************************************************)
\* the place of s[i] in the sorted list: after the elements with a greater
\* key and after the earlier elements with the same key
SortedPlace(s, field, i) ==
    Cardinality({j \in DOMAIN s : \/ s[j][field] > s[i][field]
                                  \/ s[j][field] = s[i][field] /\ j < i}) + 1

Unsorted(s, field) == s

SortDesc(s, field) ==
    IF s = <<>> THEN <<>>
    ELSE LET places == {<<SortedPlace(s, field, i), i>> : i \in DOMAIN s}
         IN [p \in DOMAIN s |-> s[(CHOOSE place \in places : place[1] = p)[2]]]

Take(s, n) == SubSeq(s, 1, Min(n, Len(s)))

(***************************************************************************)
(* One iteration of the scan loop of _execute_fallback_search              *)
(* (vector_search_service.py:296-346) and the loop itself.  `filters` is   *)
(* a parameter of the method that its body never reads.                    *)
(***************************************************************************)
FallbackResult(key, rec, sim) ==
    [ id |-> key, similarity |-> sim, score |-> Unit - sim,
      hasSimilarity |-> TRUE,
      doc_id |-> rec.doc_id, chunk_id |-> rec.chunk_id,
      content |-> rec.content,
      tags |-> rec.tags,            \* "a|b".split("|"): a list
      chunk_index |-> rec.chunk_index ]

\* whether the iteration for `key` reaches `processed_count += 1`: neither
\* the decoding nor the similarity raises or `continue`s
Processed(store, key, q) ==
    /\ DecodeOk(store[key].vector)
    /\ ~CosineRaises(q, DecodeVector(store[key].vector))

\* processed_count when the iteration for keys[i] starts
ProcessedCount(store, keys, q, processed, i) ==
    processed + Cardinality({j \in 1..(i - 1) : Processed(store, keys[j], q)})

\* the loop: the iteration for keys[i] appends a result when the loop has
\* not been left (`break`, line 299), the record is processed and its
\* similarity reaches the floor
ScanVectors(store, keys, q, processed, acc) ==
    LET Similarity(i) ==
            CalculateCosineSimilarity(q, DecodeVector(store[keys[i]].vector))
        Appends(i) ==
            /\ ProcessedCount(store, keys, q, processed, i) < MaxProcessed
            /\ Processed(store, keys[i], q)
            /\ Similarity(i) >= MinSimilarity
        hits == SelectSeq([i \in DOMAIN keys |-> i], Appends)
    IN acc \o [p \in DOMAIN hits |->
                  FallbackResult(keys[hits[p]], store[keys[hits[p]]],
                                 Similarity(hits[p]))]

ExecuteFallbackSearch(store, keys, q, limit, filters) ==
    Take(SortDesc(ScanVectors(store, keys, q, 0, <<>>), "similarity"), limit)

(***************************************************************************)
(* _generate_demo_results (vector_search_service.py:506-571): entries      *)
(* with a random "similarity_score", a non-empty tag list, and neither a   *)
(* "similarity" nor a "score" nor a "vector" key.  The query texts of the  *)
(* model name no demo topic, so the first DemoTopics topics are used.      *)
(***************************************************************************)
DemoResult(i) ==
    [ id |-> "demo", similarity |-> 0, score |-> Unit,   \* result.get("score", 1.0)
      hasSimilarity |-> FALSE,
      doc_id |-> "demo_doc", chunk_id |-> "demo_chunk",
      content |-> "demo",
      tags |-> {"demo"},
      chunk_index |-> i - 1 ]

GenerateDemoResults(limit) == [i \in 1..Min(limit, DemoTopics) |-> DemoResult(i)]

(***************************************************************************)
(* _process_search_results (vector_search_service.py:358-403).             *)
(* Both producers hand over "tags" as a list; line 388 calls .split on it  *)
(* when it is non-empty, which raises, and the except clause at 396 drops  *)
(* the result.                                                             *)
(***************************************************************************)
ResultSimilarity(r) == IF r.hasSimilarity THEN r.similarity ELSE Unit - r.score

PassesAnyThreshold(r, threshold) == TRUE

PassesThreshold(r, threshold) == ~(ResultSimilarity(r) < threshold)

EnhanceNeverRaises(r) == FALSE

EnhanceRaises(r) == r.tags # {}

EnhancedResult(r) ==
    [ chunk_id |-> r.chunk_id, doc_id |-> r.doc_id, content |-> r.content,
      similarity_score |-> Round4(ResultSimilarity(r)),
      chunk_index |-> r.chunk_index,
      tags |-> {} ]

RECURSIVE EnhanceAll(_, _)
EnhanceAll(results, threshold) ==
    IF results = <<>> THEN <<>>
    ELSE LET r == Head(results)
             rest == EnhanceAll(Tail(results), threshold)
         IN IF ~PassesThreshold(r, threshold) \/ EnhanceRaises(r)
            THEN rest
            ELSE <<EnhancedResult(r)>> \o rest

ProcessSearchResults(results, threshold) ==
    SortDesc(EnhanceAll(results, threshold), "similarity_score")

(***************************************************************************)
(* search_vectors (vector_search_service.py:158-195).  `keys` is the       *)
(* order in which KEYS "vector:*" lists the stored records.  embedOk is    *)
(* whether the query embedding could be generated, scanOk whether the      *)
(* store answered the scan.  Every exception ends in `return []`.          *)
(***************************************************************************)
SearchVectors(store, keys, query, limit, filters, threshold, embedOk, scanOk) ==
    IF ~embedOk THEN <<>>
    ELSE LET found == IF scanOk
                      THEN ExecuteFallbackSearch(store, keys, Embed(query), limit, filters)
                      ELSE <<>>
             results == IF found = <<>> THEN GenerateDemoResults(limit) ELSE found
         IN ProcessSearchResults(results, threshold)

(***************************************************************************)
(* add_document_vectors (vector_search_service.py:86-156).  A chunk is a   *)
(* dict; id / chunk_id are Absent when the key is missing, has_text and    *)
(* has_word_count say whether those keys are present.                      *)
(***************************************************************************)
VectorKeys == ChunkIds \cup {"MISSING_CHUNK_ID"}

Absent == "absent"

\* chunk.get('id', chunk.get('chunk_id', 'MISSING_CHUNK_ID'))
ChunkKey(chunk) ==
    IF chunk.id # Absent THEN chunk.id
    ELSE IF chunk.chunk_id # Absent THEN chunk.chunk_id
    ELSE "MISSING_CHUNK_ID"

\* chunk["word_count"] is read inside the per-record try
RecordRaises(chunk) == ~chunk.has_word_count

VectorData(doc_id, chunk) ==
    [ vector |-> EncodeVector(Embed(chunk.text)),
      content |-> chunk.text,
      doc_id |-> doc_id,
      chunk_id |-> ChunkKey(chunk),
      tags |-> chunk.tags,          \* "|".join(chunk.get("tags", []))
      chunk_index |-> chunk.chunk_index ]

\* the per-record loop, lines 98-144: the store and the keys written so far
RECURSIVE StoreRecords(_, _, _, _)
StoreRecords(store, doc_id, batch, writes) ==
    IF batch = <<>> THEN [store |-> store, writes |-> writes]
    ELSE LET chunk == Head(batch)
         IN IF RecordRaises(chunk)
            THEN StoreRecords(store, doc_id, Tail(batch), writes)
            ELSE StoreRecords(
                    [store EXCEPT ![ChunkKey(chunk)] = VectorData(doc_id, chunk)],
                    doc_id, Tail(batch), Append(writes, ChunkKey(chunk)))

\* generate_embedding (embedding_service.py:95-154): served from the
\* in-memory cache, else by the provider, else it raises
EmbeddingOk(text, ecache, providerOk) == text \in ecache \/ providerOk

\* lines 93-94 run before the loop and outside the per-record try
BatchRaises(batch, ecache, providerOk) ==
    \/ \E i \in DOMAIN batch : ~batch[i].has_text
    \/ \E i \in DOMAIN batch : ~EmbeddingOk(batch[i].text, ecache, providerOk)

AddVectors(store, doc_id, batch, ecache, providerOk) ==
    IF BatchRaises(batch, ecache, providerOk)
    THEN [raised |-> TRUE, store |-> store, writes |-> <<>>]
    ELSE LET r == StoreRecords(store, doc_id, batch, <<>>)
         IN [raised |-> FALSE, store |-> r.store, writes |-> r.writes]

BatchTexts(batch) == {batch[i].text : i \in {j \in DOMAIN batch : batch[j].has_text}}

\* the embedding cache after a batch: line 93 raises before any embedding
\* is generated; a provider that is down adds nothing
EmbeddingCacheAfter(batch, ecache, providerOk) ==
    IF (\E i \in DOMAIN batch : ~batch[i].has_text) \/ ~providerOk THEN ecache
    ELSE ecache \cup BatchTexts(batch)

(***************************************************************************)
(* delete_document_vectors (vector_search_service.py:405-436).             *)
(***************************************************************************)
KeysOfDoc(store, doc_id) ==
    {k \in VectorKeys : store[k] # NoRecord /\ store[k].doc_id = doc_id}

DeleteVectors(store, doc_id) ==
    [k \in VectorKeys |-> IF k \in KeysOfDoc(store, doc_id) THEN NoRecord ELSE store[k]]

(***************************************************************************)
(* The search endpoint's requests (search.py:19-25) and its cache.         *)
(***************************************************************************)
NoFilter == [kind |-> "none"]
DocFilter(d) == [kind |-> "doc_id", doc_id |-> d]

Request(q, l, t, f) == [query |-> q, limit |-> l, similarity_threshold |-> t, filters |-> f]

\* a threshold between the rounded score of "tb" against "ta" and its
\* unrounded similarity
HighThreshold ==
    Round4(CalculateCosineSimilarity(EmbedWith("openai", "ta"), EmbedWith("openai", "tb"))) + 1

PlainRequest == Request("ta", 2, 0, NoFilter)

Requests ==
    { PlainRequest,
      Request("ta", 2, HighThreshold, NoFilter),
      Request("ta", 2, Unit, DocFilter("d1")) }

NoEntry == [absent |-> TRUE]

\* set(key, value) without `ex`: an entry that never expires
NoTtl == 0

SetForever(ttl, value) == [json |-> value, ttl |-> NoTtl]

\* setex(cache_key, settings.search_cache_ttl, value)
SetEx(ttl, value) == [json |-> value, ttl |-> ttl]

\* json.dumps(cache_data) / json.loads(cached_result)
EncodeCache(results) == SetEx(SearchCacheTtl, [results |-> results])

ClearedNothing(cache) == cache

\* keys("search_cache:*") and delete(*cache_keys)
ClearedCache(cache) == [r \in DOMAIN cache |-> NoEntry]

WriteCacheMerging(cache, req, results) ==
    [cache EXCEPT ![req] = IF @ = NoEntry THEN EncodeCache(results)
                           ELSE EncodeCache(@.json.results \o results)]

\* one SETEX replaces the whole value of the key
WriteCache(cache, req, results) == [cache EXCEPT ![req] = EncodeCache(results)]

DecodeCacheLosing(entry) == <<>>

DecodeCache(entry) == entry.json.results

PresentKeys(store) == {k \in VectorKeys : store[k] # NoRecord}

\* the orders in which KEYS may list a set of keys
Orders(S) ==
    {o \in [1..Cardinality(S) -> S] : \A i, j \in 1..Cardinality(S) : i # j => o[i] # o[j]}

StatNames == {"total_searches", "cache_hits", "popular_queries", "response_times",
              "vectors_created", "vectors_deleted", "documents_processed",
              "chunks_created"}

NoResponse == [op |-> "none"]
\* `after`: what removed the request's cache entry last
NoPrior == [seen |-> FALSE, after |-> "start"]

Removed(after, entry) ==
    IF entry = NoEntry THEN NoPrior ELSE [seen |-> FALSE, after |-> after]

(***************************************************************************)
(* DocumentProcessor._update_status (document_processor.py:257-264): the   *)
(* entry of a document in processing_status is replaced.                   *)
(***************************************************************************)
Status(status, progress) == [status |-> status, progress |-> progress]

\* no entry for the document
NoStatus == Status("none", 0)

\* an update that keeps the progress when it is told 0
UpdateStatusKeepingProgress(ps, doc_id, status, progress) ==
    [ps EXCEPT ![doc_id] =
        Status(status, IF progress = 0 THEN ps[doc_id].progress ELSE progress)]

UpdateStatus(ps, doc_id, status, progress) ==
    [ps EXCEPT ![doc_id] = Status(status, progress)]

Tasks == {"t1", "t2"}
Writers == {"w1", "w2"}
NoTask == [pc |-> "idle"]

(***************************************************************************)
(* initialize_vector_index (vector_search_service.py:23-84), as it acts on *)
(* the index doc_vectors of the store.  importOk: the Redis Stack modules  *)
(* import; infoOk: ft().info() answers when the index exists; createOk:    *)
(* the engine accepts FT.CREATE.  Every exception is caught.               *)
(***************************************************************************)
NoIndex == [exists |-> FALSE, created |-> 0]

InitializeIndexTwice(index, importOk, infoOk, createOk) ==
    IF importOk /\ createOk
    THEN [exists |-> TRUE, created |-> index.created + 1]
    ELSE index

InitializeIndex(index, importOk, infoOk, createOk) ==
    IF ~importOk THEN index
    ELSE IF index.exists /\ infoOk THEN index
    ELSE IF ~index.exists /\ createOk
         THEN [exists |-> TRUE, created |-> index.created + 1]
         ELSE index      \* create_index raises; the except clause at line 80

\* `if not self.initialized: await self.initialize_vector_index()`
IndexAfterUse ==
    IF initialized THEN vector_index ELSE InitializeIndex(vector_index, TRUE, TRUE, TRUE)

(***************************************************************************)
(* RedisClient (database/redis_client.py).  connect (27-96) returns at     *)
(* once when _connected is set; otherwise it tries the server twice and,   *)
(* when both attempts fail, installs a new EnhancedMockRedisClient and     *)
(* leaves _connected unset.  `held` are the JSON values of the server,     *)
(* `mock` those of the mock instance the client holds.  json.dumps gives   *)
(* the text of a value, json.loads the value of a text; `None` of a        *)
(* missing key.                                                            *)
(***************************************************************************)
JsonKeys == {"k1", "k2"}

JsonData == {[test |-> TRUE], [test |-> FALSE]}

NoValue == [nil |-> TRUE]

Dumps(data) == [text |-> data]

Loads(value) == IF value = NoValue THEN NoValue ELSE value.text

(***************************************************************************)
(* CacheManager (utils/cache.py).  _generate_cache_key (24-45) builds      *)
(* key_data from the namespace, the key and, when params is given, its     *)
(* JSON text; it answers cache:{namespace}:{md5 of key_data} when key_data *)
(* is longer than KeyDataLimit characters and cache:{namespace}:{key}      *)
(* otherwise.  md5 is taken to be injective.  The texts of the model and   *)
(* their lengths: a namespace of 2 characters, a key of 5 and one of 190,  *)
(* and two params dicts whose JSON text has 8 characters; "none" is        *)
(* params=None.                                                            *)
(***************************************************************************)
CacheNamespaces == {"ns"}

CacheNames == {"short", "long"}

CacheParams == {"none", "p1", "p2"}

CacheValues == {"v1", "v2"}

TextLength(text) ==
    CASE text = "ns" -> 2
      [] text = "short" -> 5
      [] text = "long" -> 190
      [] OTHER -> 8

KeyData(namespace, key, params) ==
    IF params # "none" THEN <<namespace, key, params>> ELSE <<namespace, key>>

\* len(f"{namespace}:{key}:{param_str}")
KeyDataLength(key_data) ==
    IF Len(key_data) = 3
    THEN TextLength(key_data[1]) + 1 + TextLength(key_data[2]) + 1
         + TextLength(key_data[3])
    ELSE TextLength(key_data[1]) + 1 + TextLength(key_data[2])

PlainKey(namespace, key) ==
    [prefix |-> "cache:", namespace |-> namespace, hashed |-> FALSE, name |-> <<key>>]

HashedKey(namespace, key_data) ==
    [prefix |-> "cache:", namespace |-> namespace, hashed |-> TRUE, name |-> key_data]

\* a key that carries the params whatever the length of key_data
AlwaysHashedKey(namespace, key, params) ==
    HashedKey(namespace, KeyData(namespace, key, params))

ManagerCacheKey(namespace, key, params) ==
    IF KeyDataLength(KeyData(namespace, key, params)) > KeyDataLimit
    THEN HashedKey(namespace, KeyData(namespace, key, params))
    ELSE PlainKey(namespace, key)

ManagerCacheKeys ==
    {PlainKey(n, k) : n \in CacheNamespaces, k \in CacheNames} \cup
    {AlwaysHashedKey(n, k, p) : n \in CacheNamespaces, k \in CacheNames, p \in CacheParams}

NewMock == [k \in JsonKeys |-> NoValue]

NoClient ==
    [ kind |-> "none", connected |-> FALSE, mock |-> NewMock, held |-> NewMock,
      written |-> [k \in JsonKeys |-> NoValue], healthy |-> FALSE,
      cache |-> [k \in ManagerCacheKeys |-> NoValue] ]

Connect(c, reachable) ==
    IF c.connected THEN c
    ELSE IF reachable THEN [c EXCEPT !.kind = "redis", !.connected = TRUE]
    ELSE [c EXCEPT !.kind = "mock", !.mock = NewMock]

\* client.set(key, json.dumps(data), ex=ttl) and client.get(key)
ClientSet(c, key, data) ==
    IF c.kind = "redis" THEN [c EXCEPT !.held[key] = Dumps(data)]
    ELSE [c EXCEPT !.mock[key] = Dumps(data)]

ClientGet(c, key) == IF c.kind = "redis" THEN c.held[key] ELSE c.mock[key]

Init ==
    /\ vectors = [k \in VectorKeys |-> NoRecord]
    /\ documents = [d \in DocIds |-> NoRecord]
    /\ doc_chunks = [d \in DocIds |-> NoRecord]
    /\ doc_chunk = {}
    /\ doc_index = {}
    /\ search_cache = [r \in Requests |-> NoEntry]
    /\ stats = [n \in StatNames |-> 0]
    /\ embedding_cache = {}
    /\ initialized = FALSE
    /\ processing_status = [d \in DocIds |-> NoStatus]
    /\ background_tasks = 0
    /\ issued = {}
    /\ prior = [r \in Requests |-> NoPrior]
    /\ last = NoResponse
    /\ last_add = NoResponse
    /\ last_delete = NoResponse
    /\ deleted = {}
    /\ calls = [searches |-> 0, hits |-> 0, adds |-> 0, reindexes |-> 0]
    /\ embedding_method = "openai"
    /\ vector_index = NoIndex
    /\ searching = [t \in Tasks |-> NoTask]
    /\ adding = [w \in Writers |-> NoTask]
    /\ last_call = NoResponse
    /\ response_times = <<>>
    /\ store_client = NoClient

Incr(st, names) == [n \in StatNames |-> IF n \in names THEN st[n] + 1 ELSE st[n]]

IncrBy(st, name, k) == [st EXCEPT ![name] = @ + k]

(***************************************************************************)
(* The list stats:response_times.  LPUSH puts a value at the head, LTRIM   *)
(* keeps the elements at the positions start..end, counted from 0          *)
(* (search.py:132-133 and 322-323).  A sample is identified by its number  *)
(* in the order of recording, which stats["response_times"] counts.        *)
(***************************************************************************)
Rpush(list, value) == Append(list, value)

Lpush(list, value) == <<value>> \o list

Ltrim(list, start, end) ==
    SubSeq(list, start + 1, IF end + 1 < Len(list) THEN end + 1 ELSE Len(list))

Sample == stats["response_times"] + 1

RecordResponseTime(list, sample) == Ltrim(Lpush(list, sample), 0, ResponseTimesEnd)

\* search.py:123-137, the immediate analytics block of the miss path
ImmediateAnalytics == {"total_searches", "popular_queries", "response_times"}

\* search.py:304-342, the background task
BackgroundAnalytics == {"total_searches", "popular_queries", "response_times"}

Response(req, status, cached, results, fault) ==
    [ op |-> "search", request |-> req, status |-> status, cached |-> cached,
      results |-> results, total_results |-> Len(results), fault |-> fault,
      prior |-> prior[req], deleted |-> deleted ]

Seen(resp) == [seen |-> TRUE, cached |-> resp.cached, results |-> resp.results,
               status |-> resp.status, fault |-> resp.fault]

SearchFaults == {"none", "cache_get", "embedding", "scan", "cache_set", "stats"}

(***************************************************************************)
(* POST /api/search (search.py:48-162).  `order` is the order in which the *)
(* store lists the vector keys, `fault` the call that raises, if any.      *)
(***************************************************************************)
SearchFailed(req, fault) ==
    \* the outer except clause: HTTP 500
    /\ last' = Response(req, 500, FALSE, <<>>, fault)
    /\ prior' = [prior EXCEPT ![req] = Seen(last')]

SearchCacheHit(req, fault) ==
    /\ search_cache[req] # NoEntry
    /\ fault \in {"none", "stats"}
    /\ IF fault = "stats"
       THEN \* line 68 is not inside a try of its own
            /\ SearchFailed(req, fault)
            /\ UNCHANGED <<stats, response_times, store_client>>
       ELSE /\ UNCHANGED <<response_times, store_client>>
            /\ stats' = Incr(stats, {"cache_hits"})
            /\ last' = Response(req, 200, TRUE, DecodeCache(search_cache[req]), fault)
            /\ prior' = [prior EXCEPT ![req] = Seen(last')]
    /\ UNCHANGED <<search_cache, embedding_cache, initialized, background_tasks,
                   vector_index>>

\* lines 81-158: the search itself, the cache write, the analytics, the answer
SearchExecute(req, order, fault) ==
    /\ fault \in {"none", "embedding", "scan", "cache_set", "stats"}
    /\ fault = "embedding" => req.query \notin embedding_cache
    /\ LET embedOk == EmbeddingOk(req.query, embedding_cache, fault # "embedding")
           results == SearchVectors(vectors, order, req.query, req.limit, req.filters,
                                    req.similarity_threshold, embedOk, fault # "scan")
       IN /\ initialized' = TRUE
          /\ vector_index' = IndexAfterUse
          /\ embedding_cache' = IF embedOk THEN embedding_cache \cup {req.query}
                                ELSE embedding_cache
          /\ IF results # <<>> /\ fault = "cache_set"
             THEN \* setex raises: nothing is cached, counted or scheduled
                  /\ SearchFailed(req, fault)
                  /\ UNCHANGED <<search_cache, stats, response_times, store_client, background_tasks>>
             ELSE /\ search_cache' = IF results # <<>>
                                     THEN WriteCache(search_cache, req, results)
                                     ELSE search_cache
                  /\ stats' = IF fault = "stats" THEN stats
                              ELSE Incr(stats, ImmediateAnalytics)
                  /\ response_times' = IF fault = "stats" THEN response_times
                                       ELSE RecordResponseTime(response_times, Sample)
                  /\ UNCHANGED store_client
                  /\ background_tasks' = background_tasks + 1
                  /\ last' = Response(req, 200, FALSE, results, fault)
                  /\ prior' = [prior EXCEPT ![req] = Seen(last')]

SearchCacheMiss(req, order, fault) ==
    /\ search_cache[req] = NoEntry
    /\ SearchExecute(req, order, fault)

SearchRun(req, order, fault) ==
    /\ \/ /\ fault = "cache_get"
          /\ SearchFailed(req, fault)
          /\ UNCHANGED <<search_cache, stats, response_times, store_client, embedding_cache, initialized, background_tasks,
                         vector_index>>
       \/ SearchCacheHit(req, fault)
       \/ SearchCacheMiss(req, order, fault)
    /\ UNCHANGED <<vectors, documents, doc_chunks, doc_chunk, doc_index, processing_status,
                   issued, last_add, last_delete, deleted, embedding_method, adding,
                   last_call>>

SearchDocumentsUpTo(requests, req, order, fault) ==
    /\ calls.searches < requests
    /\ SearchRun(req, order, fault)
    /\ calls' = [calls EXCEPT !.searches = @ + 1,
                              !.hits = IF last'.cached THEN @ + 1 ELSE @]
    /\ UNCHANGED searching

SearchDocuments(req, order, fault) ==
    SearchDocumentsUpTo(MaxRequests, req, order, fault)

(***************************************************************************)
(* The same handler as a task of the event loop.  The only point at which  *)
(* search_documents yields is the embedding of a query that is not in the  *)
(* embedding cache (asyncio.to_thread, embedding_service.py:195, 245); the *)
(* cache lookup comes before it, the scan and the cache write after it.    *)
(***************************************************************************)
Finished(resp, yielded) ==
    [ pc |-> "done", request |-> resp.request, cached |-> resp.cached,
      results |-> resp.results, yielded |-> yielded,
      nth |-> Cardinality({t \in Tasks : searching[t].pc = "done"}) + 1 ]

Yields(req) == search_cache[req] = NoEntry /\ req.query \notin embedding_cache

SearchBegin(t, req, order) ==
    /\ searching[t] = NoTask
    /\ calls.searches < MaxRequests
    /\ IF Yields(req)
       THEN /\ searching' = [searching EXCEPT ![t] = [pc |-> "embedding", request |-> req]]
            /\ initialized' = TRUE
            /\ vector_index' = IndexAfterUse
            /\ calls' = [calls EXCEPT !.searches = @ + 1]
            /\ UNCHANGED <<vectors, documents, doc_chunks, doc_chunk, doc_index,
                           search_cache, stats, response_times, store_client, embedding_cache, processing_status,
                           background_tasks, issued, prior, last, last_add, last_delete,
                           deleted, embedding_method, adding, last_call>>
       ELSE /\ SearchRun(req, order, "none")
            /\ searching' = [searching EXCEPT ![t] = Finished(last', FALSE)]
            /\ calls' = [calls EXCEPT !.searches = @ + 1,
                                      !.hits = IF last'.cached THEN @ + 1 ELSE @]

SearchResume(t, order) ==
    /\ searching[t].pc = "embedding"
    /\ SearchExecute(searching[t].request, order, "none")
    /\ searching' = [searching EXCEPT ![t] = Finished(last', TRUE)]
    /\ UNCHANGED <<vectors, documents, doc_chunks, doc_chunk, doc_index, processing_status,
                   issued, last_add, last_delete, deleted, calls, embedding_method,
                   adding, last_call>>

(***************************************************************************)
(* search_vectors called directly, as test_functionality.py:44 does.  The  *)
(* outcome is kept together with the store that was scanned and with the   *)
(* outcome of the call before it.                                          *)
(***************************************************************************)
Outcome(call) ==
    IF call.op \in {"search_vectors", "knn_search"}
    THEN [op |-> call.op, request |-> call.request, store |-> call.store,
          results |-> call.results, raised |-> call.raised]
    ELSE NoResponse

SearchVectorsCall(req, order) ==
    /\ calls.searches < MaxRequests
    /\ calls' = [calls EXCEPT !.searches = @ + 1]
    /\ LET embedOk == EmbeddingOk(req.query, embedding_cache, TRUE)
           results == SearchVectors(vectors, order, req.query, req.limit, req.filters,
                                    req.similarity_threshold, embedOk, TRUE)
       IN last_call' = [ op |-> "search_vectors", request |-> req, store |-> vectors,
                         results |-> results, raised |-> FALSE,
                         previous |-> Outcome(last_call) ]
    /\ initialized' = TRUE
    /\ vector_index' = IndexAfterUse
    /\ embedding_cache' = embedding_cache \cup {req.query}
    /\ UNCHANGED <<vectors, documents, doc_chunks, doc_chunk, doc_index, search_cache,
                   stats, response_times, store_client, processing_status, background_tasks, issued,
                   prior, last, last_add, last_delete, deleted, embedding_method,
                   inflight>>

(***************************************************************************)
(* _execute_fallback_search called with a query vector over a store of     *)
(* `stored` records vector:1 .. vector:stored, listed by KEYS in that      *)
(* order: the record at place `best` has the query's own embedding, every  *)
(* other record the embedding of the text `filler`.                        *)
(***************************************************************************)
ScanRecord(key, text) ==
    [ vector |-> EncodeVector(EmbedWith("openai", text)),
      content |-> text, doc_id |-> "d1", chunk_id |-> key, tags |-> {},
      chunk_index |-> key ]

ScanStore(stored, best, filler) ==
    [key \in 1..stored |-> ScanRecord(key, IF key = best THEN "ta" ELSE filler)]

\* the store is brought to `stored` records
PrepareScanStore(stored, best, filler) ==
    /\ last_call' = [ op |-> "scan_store", stored |-> stored, best |-> best,
                      filler |-> filler ]
    /\ UNCHANGED <<vectors, documents, doc_chunks, doc_chunk, doc_index, search_cache,
                   stats, response_times, store_client, embedding_cache, initialized,
                   processing_status, background_tasks, issued, prior, last, last_add,
                   last_delete, deleted, calls, embedding_method, vector_index,
                   inflight>>

ExecuteFallbackSearchCall(limit) ==
    /\ last_call.op = "scan_store"
    /\ LET store == ScanStore(last_call.stored, last_call.best, last_call.filler)
           keys == [i \in 1..last_call.stored |-> i]
       IN last_call' = [ op |-> "fallback_search", stored |-> last_call.stored,
                         best |-> last_call.best, filler |-> last_call.filler,
                         limit |-> limit,
                         results |-> ExecuteFallbackSearch(
                                        store, keys, EmbedWith("openai", "ta"),
                                        limit, NoFilter) ]
    /\ UNCHANGED <<vectors, documents, doc_chunks, doc_chunk, doc_index, search_cache,
                   stats, response_times, store_client, embedding_cache, initialized,
                   processing_status, background_tasks, issued, prior, last, last_add,
                   last_delete, deleted, calls, embedding_method, vector_index,
                   inflight>>

(***************************************************************************)
(* The indexed path: _execute_redis_stack_search (lines 197-281) answered  *)
(* at its first query syntax, followed by _process_search_results.  No     *)
(* caller exists in the service: search_vectors goes to the fallback       *)
(* search unconditionally (lines 171-178).                                 *)
(* The index doc_vectors is declared over the hashes vector:* with the     *)
(* field "vector" of TYPE FLOAT32 and DIM settings.embedding_dimensions    *)
(* under the COSINE metric (lines 46-73): it holds the hashes whose        *)
(* "vector" field is a blob of DIM float32 values, and KNN k answers the k *)
(* of them at the smallest cosine distance, with that distance as "score". *)
(* A result has the fields of its hash, "vector" among them and no         *)
(* "similarity", so that line 368 computes the similarity from the vector: *)
(* Unit - score here.  `order` is the order in which the index holds the  *)
(* hashes.                                                                 *)
(* responseOk: whether the client, which decodes every reply as UTF-8      *)
(* (redis_client.py:49), can decode the reply that carries the blobs.      *)
(***************************************************************************)
Indexed(store) ==
    {k \in PresentKeys(store) :
        /\ store[k].vector.fmt = "raw"
        /\ Len(store[k].vector.data) = EmbeddingDimensions}

KnnResult(key, rec, q) ==
    [ id |-> key, similarity |-> 0,
      score |-> Unit - CalculateSimilarity(q, rec.vector.data),
      hasSimilarity |-> FALSE,
      doc_id |-> rec.doc_id, chunk_id |-> rec.chunk_id,
      content |-> rec.content,
      tags |-> {},                  \* str.split works on the stored string
      chunk_index |-> rec.chunk_index ]

RECURSIVE KnnCandidates(_, _, _)
KnnCandidates(store, keys, q) ==
    IF keys = <<>> THEN <<>>
    ELSE IF Head(keys) \in Indexed(store)
         THEN <<KnnResult(Head(keys), store[Head(keys)], q)>>
                 \o KnnCandidates(store, Tail(keys), q)
         ELSE KnnCandidates(store, Tail(keys), q)

\* the k nearest: the smallest scores first
KnnSearch(store, keys, q, limit) ==
    LET nearest == SortDesc(KnnCandidates(store, keys, q), "score")
    IN Take([i \in DOMAIN nearest |-> nearest[Len(nearest) + 1 - i]], limit)

KnnSearchCall(req, order, responseOk) ==
    /\ vector_index.exists
    /\ calls.searches < MaxRequests
    /\ calls' = [calls EXCEPT !.searches = @ + 1]
    /\ last_call' =
          [ op |-> "knn_search", request |-> req, store |-> vectors,
            results |-> IF responseOk
                        THEN ProcessSearchResults(
                                 KnnSearch(vectors, order, Embed(req.query), req.limit),
                                 req.similarity_threshold)
                        ELSE <<>>,
            raised |-> ~responseOk,
            previous |-> Outcome(last_call) ]
    /\ UNCHANGED <<vectors, documents, doc_chunks, doc_chunk, doc_index, search_cache,
                   stats, response_times, store_client, embedding_cache, initialized, processing_status,
                   background_tasks, issued, prior, last, last_add, last_delete,
                   deleted, embedding_method, vector_index, inflight>>

(***************************************************************************)
(* health_check (98-108), set_json (186-196), get_json (198-210) and a     *)
(* deletion of the key, as scripts/test_setup.py:37-77 calls them.         *)
(* `reachable`: whether the server accepts a connection at that moment; a  *)
(* connected client is answered.  `written` is the value of the last       *)
(* set_json of a key that nothing has written or deleted since, with       *)
(* whether health_check had returned True before it.                       *)
(***************************************************************************)
OtherCalls ==
    <<vectors, documents, doc_chunks, doc_chunk, doc_index, search_cache, stats,
      response_times, embedding_cache, initialized, processing_status, background_tasks,
      issued, prior, last, last_add, last_delete, deleted, calls, embedding_method,
      vector_index, inflight>>

\* client.ping(): the mock answers True; the real client answers True or
\* raises when the server cannot be reached.
Ping(c, reachable) == c.kind = "mock" \/ reachable

HealthCheck(reachable) ==
    /\ LET c == Connect(store_client, reachable)
           returned == Ping(c, reachable)
       IN /\ store_client' = [c EXCEPT !.healthy = @ \/ returned]
          /\ last_call' = [ op |-> "health_check", returned |-> returned,
                            client |-> c.kind, connected |-> c.connected,
                            reachable |-> reachable ]
    /\ UNCHANGED OtherCalls

SetJson(key, data, reachable) ==
    /\ LET c == Connect(store_client, reachable)
       IN store_client' =
             [ClientSet(c, key, data) EXCEPT
                 !.written[key] = [data |-> data, healthy |-> c.healthy]]
    /\ last_call' = [op |-> "set_json", key |-> key, raised |-> FALSE]
    /\ UNCHANGED OtherCalls

GetJson(key, reachable) ==
    /\ LET c == Connect(store_client, reachable)
       IN /\ store_client' = c
          /\ last_call' = [ op |-> "get_json", key |-> key,
                            returned |-> Loads(ClientGet(c, key)),
                            written |-> store_client.written[key],
                            client |-> c.kind ]
    /\ UNCHANGED OtherCalls

DeleteKey(key) ==
    /\ store_client.kind # "none"
    /\ store_client' =
          [store_client EXCEPT !.written[key] = NoValue,
                               !.held[key] = IF store_client.kind = "redis"
                                             THEN NoValue ELSE @,
                               !.mock[key] = IF store_client.kind = "mock"
                                             THEN NoValue ELSE @]
    /\ last_call' = [op |-> "delete", key |-> key]
    /\ UNCHANGED OtherCalls

(***************************************************************************)
(* CacheManager.set (47-80) and get (82-107) over a connected store.  The  *)
(* entry keeps, next to the serialized value, the params it was stored     *)
(* with.                                                                   *)
(***************************************************************************)
CacheSet(namespace, key, value, params) ==
    /\ LET cache_key == ManagerCacheKey(namespace, key, params)
           c == Connect(store_client, TRUE)
       IN store_client' =
             [c EXCEPT !.cache[cache_key] =
                 [text |-> [value |-> Dumps(value)], params |-> params]]
    /\ last_call' = [ op |-> "cache_set", namespace |-> namespace, key |-> key,
                      params |-> params, returned |-> TRUE ]
    /\ UNCHANGED OtherCalls

CacheGet(namespace, key, params) ==
    /\ LET cache_key == ManagerCacheKey(namespace, key, params)
           c == Connect(store_client, TRUE)
           cache_data == Loads(c.cache[cache_key])
       IN /\ store_client' = c
          /\ last_call' = [ op |-> "cache_get", namespace |-> namespace, key |-> key,
                            params |-> params,
                            hit |-> cache_data # NoValue,
                            returned |-> IF cache_data = NoValue THEN "default"
                                         ELSE Loads(cache_data.value),
                            stored_with |-> IF cache_data = NoValue THEN "none"
                                            ELSE c.cache[cache_key].params ]
    /\ UNCHANGED OtherCalls

(***************************************************************************)
(* calculate_similarity called directly, as scripts/test_setup.py:146      *)
(* does, on the embedding of a text and the vector of a stored record.     *)
(***************************************************************************)
CalculateSimilarityCall(text, key) ==
    /\ vectors[key] # NoRecord
    /\ DecodeOk(vectors[key].vector)
    /\ LET v1 == Embed(text)
           v2 == DecodeVector(vectors[key].vector)
       IN last_call' = [ op |-> "similarity", v1 |-> v1, v2 |-> v2,
                         value |-> CalculateSimilarity(v1, v2), raised |-> FALSE ]
    /\ UNCHANGED <<vectors, documents, doc_chunks, doc_chunk, doc_index, search_cache,
                   stats, response_times, store_client, embedding_cache, initialized, processing_status,
                   background_tasks, issued, prior, last, last_add, last_delete,
                   deleted, calls, embedding_method, vector_index, inflight>>

(***************************************************************************)
(* The cache key (search.py:58): md5 of json.dumps(query.dict(),            *)
(* sort_keys=True).  A dict is the sequence of its (key, value) pairs in   *)
(* insertion order; sort_keys writes the pairs of every dict, nested ones  *)
(* included, in the order of their keys.  md5 is taken to be free of       *)
(* collisions.                                                             *)
(***************************************************************************)
KeyOrder ==
    << "doc_id", "filters", "include_content", "include_metadata", "limit", "query",
       "similarity_threshold", "tags" >>

Rank(k) == CHOOSE i \in DOMAIN KeyOrder : KeyOrder[i] = k

RECURSIVE InsertByKey(_, _)
InsertByKey(pair, sorted) ==
    IF sorted = <<>> THEN <<pair>>
    ELSE IF Rank(pair[1]) < Rank(Head(sorted)[1])
         THEN <<pair>> \o sorted
         ELSE <<Head(sorted)>> \o InsertByKey(pair, Tail(sorted))

KeepOrder(dict) == dict

RECURSIVE SortKeys(_)
SortKeys(dict) ==
    IF dict = <<>> THEN <<>> ELSE InsertByKey(Head(dict), SortKeys(Tail(dict)))

\* a filter map as sent: None, or a dict
None == [present |-> FALSE, items |-> <<>>]

Dict(items) == [present |-> TRUE, items |-> items]

\* the fields of SearchQuery (search.py:19-25), in the order of declaration
QueryDict(q) ==
    << <<"query", q.query>>, <<"limit", q.limit>>,
       <<"similarity_threshold", q.similarity_threshold>>, <<"filters", q.filters>>,
       <<"include_content", q.include_content>>,
       <<"include_metadata", q.include_metadata>> >>

JsonDumps(dict) ==
    LET Value(pair) == IF pair[1] = "filters" /\ pair[2].present
                       THEN <<pair[1], Dict(SortKeys(pair[2].items))>>
                       ELSE pair
        sorted == SortKeys(dict)
    IN [i \in DOMAIN sorted |-> Value(sorted[i])]

Md5(text) == [md5 |-> text]

CacheKey(q) == Md5(JsonDumps(QueryDict(q)))

FilterMaps ==
    { None,
      Dict(<< <<"doc_id", "d1">> >>),
      Dict(<< <<"doc_id", "d1">>, <<"tags", "t">> >>),
      Dict(<< <<"tags", "t">>, <<"doc_id", "d1">> >>) }

SearchQueries ==
    [ query : {"ta", "tb"}, limit : {2}, similarity_threshold : {0, Unit},
      filters : FilterMaps, include_content : BOOLEAN, include_metadata : BOOLEAN ]

\* two requests, one after the other: the key of each
GenerateCacheKey(q) ==
    /\ last_call' = [ op |-> "cache_key", query |-> q, key |-> CacheKey(q),
                      previous |-> IF last_call.op = "cache_key"
                                   THEN [op |-> "cache_key", query |-> last_call.query,
                                         key |-> last_call.key]
                                   ELSE NoResponse ]
    /\ UNCHANGED <<vectors, documents, doc_chunks, doc_chunk, doc_index, search_cache,
                   stats, response_times, store_client, embedding_cache, initialized, processing_status,
                   background_tasks, issued, prior, last, last_add, last_delete,
                   deleted, calls, embedding_method, vector_index, inflight>>

(***************************************************************************)
(* _update_search_analytics (search.py:304-342), run after the response.   *)
(***************************************************************************)
UpdateSearchAnalytics(storeOk) ==
    /\ background_tasks > 0
    /\ background_tasks' = background_tasks - 1
    /\ stats' = IF storeOk THEN Incr(stats, BackgroundAnalytics) ELSE stats
    /\ response_times' = IF storeOk THEN RecordResponseTime(response_times, Sample)
                         ELSE response_times
    /\ UNCHANGED store_client
    /\ UNCHANGED <<vectors, documents, doc_chunks, doc_chunk, doc_index, search_cache,
                   embedding_cache, initialized, processing_status, issued, prior,
                   last, last_add, last_delete, deleted, calls, embedding_method,
                   vector_index, inflight, last_call>>

(***************************************************************************)
(* The same task in one of several worker processes, command by command    *)
(* where the list is concerned: the store runs each command atomically,    *)
(* and commands of other processes may come between LPUSH and LTRIM.       *)
(***************************************************************************)
AnalyticsPush(t) ==
    /\ searching[t] = NoTask
    /\ stats["response_times"] < MaxSamples
    /\ stats' = Incr(stats, BackgroundAnalytics)
    /\ response_times' = Lpush(response_times, Sample)
    /\ UNCHANGED store_client
    /\ searching' = [searching EXCEPT ![t] = [pc |-> "ltrim"]]
    /\ UNCHANGED <<vectors, documents, doc_chunks, doc_chunk, doc_index, search_cache,
                   embedding_cache, initialized, processing_status, background_tasks,
                   issued, prior, last, last_add, last_delete, deleted, calls,
                   embedding_method, vector_index, adding, last_call>>

AnalyticsTrim(t) ==
    /\ searching[t].pc = "ltrim"
    /\ response_times' = Ltrim(response_times, 0, ResponseTimesEnd)
    /\ UNCHANGED store_client
    /\ searching' = [searching EXCEPT ![t] = NoTask]
    /\ UNCHANGED <<vectors, documents, doc_chunks, doc_chunk, doc_index, search_cache,
                   stats, embedding_cache, initialized, processing_status,
                   background_tasks, issued, prior, last, last_add, last_delete, deleted,
                   calls, embedding_method, vector_index, adding, last_call>>

(***************************************************************************)
(* DELETE /api/search/cache (search.py:279-301), and the moment at which   *)
(* search_cache_ttl seconds have passed since one entry was written.       *)
(***************************************************************************)
ClearSearchCache ==
    /\ search_cache' = ClearedCache(search_cache)
    /\ prior' = [r \in Requests |-> Removed("clear", search_cache[r])]
    /\ UNCHANGED <<vectors, documents, doc_chunks, doc_chunk, doc_index, stats, response_times, store_client, embedding_cache,
                   initialized, processing_status, background_tasks, issued, last,
                   last_add, last_delete, deleted, calls, embedding_method,
                   vector_index, inflight, last_call>>

ExpireCacheEntry(req) ==
    /\ search_cache[req] # NoEntry
    /\ search_cache[req].ttl # NoTtl
    /\ search_cache' = [search_cache EXCEPT ![req] = NoEntry]
    /\ prior' = [prior EXCEPT ![req] = Removed("expiry", search_cache[req])]
    /\ UNCHANGED <<vectors, documents, doc_chunks, doc_chunk, doc_index, stats, response_times, store_client, embedding_cache,
                   initialized, processing_status, background_tasks, issued, last,
                   last_add, last_delete, deleted, calls, embedding_method,
                   vector_index, inflight, last_call>>

(***************************************************************************)
(* Chunks handed to add_document_vectors by its callers.                   *)
(***************************************************************************)
Chunk(id, chunk_id, has_text, text, has_word_count, tags, chunk_index) ==
    [ id |-> id, chunk_id |-> chunk_id, has_text |-> has_text, text |-> text,
      has_word_count |-> has_word_count, tags |-> tags, chunk_index |-> chunk_index ]

ChunkShapes == {"ta", "tb", "to", "tagged", "no_text", "no_word_count", "no_id"}

ShapedChunk(shape, c, i) ==
    CASE shape = "tagged"        -> Chunk(Absent, c, TRUE, "ta", TRUE, {"t"}, i)
      [] shape = "no_text"       -> Chunk(Absent, c, FALSE, Absent, TRUE, {}, i)
      [] shape = "no_word_count" -> Chunk(Absent, c, TRUE, "ta", FALSE, {}, i)
      [] shape = "no_id"         -> Chunk(Absent, Absent, TRUE, "ta", TRUE, {}, i)
      [] OTHER                   -> Chunk(Absent, c, TRUE, shape, TRUE, {}, i)

ChunkOrder == <<"c1", "c2", "c3">>

\* the batches of at most MaxBatch chunks with the given shapes; the i-th
\* chunk of a batch is chunk i of its document
BatchesOf(shapes) ==
    UNION { { [i \in 1..n |-> ShapedChunk(sh[i], ChunkOrder[i], i - 1)] :
                sh \in [1..n -> shapes] } :
            n \in 1..Min(MaxBatch, Len(ChunkOrder)) }

Batches == BatchesOf(ChunkShapes)

ShapedBatch(sh) == [i \in DOMAIN sh |-> ShapedChunk(sh[i], ChunkOrder[i], i - 1)]

\* well-formed batches for the search scenarios: two chunks of different
\* similarity, two chunks of equal similarity, a chunk orthogonal to the
\* query, a tagged chunk
SearchableBatches ==
    { ShapedBatch(<<"ta", "tb">>), ShapedBatch(<<"ta", "ta">>),
      ShapedBatch(<<"to">>), ShapedBatch(<<"tagged">>) }

WellFormed(chunk) == chunk.has_text /\ chunk.has_word_count

SeqKeys(batch) == [i \in DOMAIN batch |-> ChunkKey(batch[i])]

\* one run of add_document_vectors, start to end
AddDocumentVectorsCall(doc_id, batch, providerOk) ==
    /\ LET r == AddVectors(vectors, doc_id, batch, embedding_cache, providerOk)
       IN /\ vectors' = r.store
          /\ UNCHANGED <<response_times, store_client>>
          /\ stats' = IF r.raised THEN stats
                      ELSE IncrBy(stats, "vectors_created", Len(r.writes))
          /\ last_add' = [ op |-> "add", doc_id |-> doc_id, raised |-> r.raised,
                           providerOk |-> providerOk,
                           returned |-> Len(r.writes), writes |-> r.writes,
                           expected |-> SeqKeys(SelectSeq(batch, WellFormed)),
                           owned_before |-> KeysOfDoc(vectors, doc_id),
                           owned_after |-> KeysOfDoc(r.store, doc_id) ]
    /\ embedding_cache' = EmbeddingCacheAfter(batch, embedding_cache, providerOk)
    /\ initialized' = TRUE
    /\ vector_index' = IndexAfterUse
    /\ issued' = issued \cup {doc_id} \cup {ChunkKey(batch[i]) : i \in DOMAIN batch}
    /\ deleted' = deleted \ {doc_id}
    /\ UNCHANGED <<documents, doc_chunks, doc_chunk, doc_index, search_cache,
                   processing_status, background_tasks, prior, last, last_delete,
                   embedding_method, inflight, last_call>>

\* VectorSearchService.add_document_vectors called directly, as the admin
\* endpoints and the scripts do
AddDocumentVectors(doc_id, batch, providerOk) ==
    /\ calls.adds < MaxAdds
    /\ calls' = [calls EXCEPT !.adds = @ + 1]
    /\ AddDocumentVectorsCall(doc_id, batch, providerOk)

\* add_document_vectors run again for a document that has records: with
\* the chunk ids it was indexed under, or with the fresh ids of a new
\* chunking
ShapedBatchAt(sh, ids) == [i \in DOMAIN sh |-> ShapedChunk(sh[i], ids[i], i - 1)]

ReindexBatches ==
    { ShapedBatch(<<"tb", "ta">>), ShapedBatch(<<"tb">>), ShapedBatchAt(<<"tb">>, <<"c3">>) }

ReindexDocument(doc_id, batch, providerOk) ==
    /\ KeysOfDoc(vectors, doc_id) # {}
    /\ calls.reindexes < MaxReindex
    /\ calls' = [calls EXCEPT !.reindexes = @ + 1]
    /\ AddDocumentVectorsCall(doc_id, batch, providerOk)

(***************************************************************************)
(* add_document_vectors as the store sees it.  The loop at lines 98-144    *)
(* sends one HSET per chunk and the INCRBY after the last one, with no     *)
(* MULTI or pipeline around them; the store is shared by every process     *)
(* that runs this code, so another client's commands can fall between any  *)
(* two of them.  Lines 89-96 (the index, the texts, the embeddings) come   *)
(* before the first HSET.                                                  *)
(***************************************************************************)
StoreWhole(store, doc_id, batch, n) == StoreRecords(store, doc_id, batch, <<>>).store

\* the n-th pass of the loop
StoreOne(store, doc_id, batch, n) ==
    IF RecordRaises(batch[n]) THEN store
    ELSE [store EXCEPT ![ChunkKey(batch[n])] = VectorData(doc_id, batch[n])]

AddBegin(w, doc_id, batch, providerOk) ==
    /\ adding[w] = NoTask
    /\ adding' = [adding EXCEPT ![w] =
                     IF BatchRaises(batch, embedding_cache, providerOk)
                     THEN [ pc |-> "done", doc_id |-> doc_id, batch |-> batch,
                            raised |-> TRUE, writes |-> <<>>,
                            before |-> PresentKeys(vectors) ]
                     ELSE [ pc |-> "writing", doc_id |-> doc_id, batch |-> batch,
                            next |-> 1, writes |-> <<>>,
                            before |-> PresentKeys(vectors) ]]
    /\ embedding_cache' = EmbeddingCacheAfter(batch, embedding_cache, providerOk)
    /\ initialized' = TRUE
    /\ vector_index' = IndexAfterUse
    /\ issued' = issued \cup {doc_id} \cup {ChunkKey(batch[i]) : i \in DOMAIN batch}
    /\ deleted' = deleted \ {doc_id}
    /\ UNCHANGED <<vectors, documents, doc_chunks, doc_chunk, doc_index, search_cache, stats, response_times, store_client,
                   processing_status, background_tasks, prior, last, last_add,
                   last_delete, calls, embedding_method, searching, last_call>>

AddStore(w) ==
    /\ adding[w].pc = "writing"
    /\ adding[w].next <= Len(adding[w].batch)
    /\ LET a == adding[w]
       IN /\ vectors' = StoreOne(vectors, a.doc_id, a.batch, a.next)
          /\ adding' = [adding EXCEPT ![w].next = @ + 1,
                                      ![w].writes =
                                          IF RecordRaises(a.batch[a.next]) THEN @
                                          ELSE Append(@, ChunkKey(a.batch[a.next]))]
    /\ UNCHANGED <<documents, doc_chunks, doc_chunk, doc_index, search_cache, stats, response_times, store_client,
                   embedding_cache, initialized, processing_status, background_tasks,
                   issued, prior, last, last_add, last_delete, deleted, calls,
                   embedding_method, vector_index, searching, last_call>>

AddFinish(w) ==
    /\ adding[w].pc = "writing"
    /\ adding[w].next > Len(adding[w].batch)
    /\ LET a == adding[w]
       IN /\ UNCHANGED <<response_times, store_client>>
          /\ stats' = IncrBy(stats, "vectors_created", Len(a.writes))
          /\ adding' = [adding EXCEPT ![w] =
                           [ pc |-> "done", doc_id |-> a.doc_id, batch |-> a.batch,
                             raised |-> FALSE, writes |-> a.writes, before |-> a.before ]]
    /\ UNCHANGED <<vectors, documents, doc_chunks, doc_chunk, doc_index, search_cache,
                   embedding_cache, initialized, processing_status, background_tasks,
                   issued, prior, last, last_add, last_delete, deleted, calls,
                   embedding_method, vector_index, searching, last_call>>

\* VectorSearchService.delete_document_vectors called directly
DeleteDocumentVectors(doc_id) ==
    /\ vectors' = DeleteVectors(vectors, doc_id)
    /\ UNCHANGED <<response_times, store_client>>
    /\ stats' = IncrBy(stats, "vectors_deleted", Cardinality(KeysOfDoc(vectors, doc_id)))
    /\ UNCHANGED <<documents, doc_chunks, doc_chunk, doc_index, search_cache,
                   embedding_cache, initialized, processing_status, background_tasks,
                   issued, prior, last, last_add, last_delete, deleted, calls,
                   embedding_method, vector_index, inflight, last_call>>

(***************************************************************************)
(* delete_document_vectors as its loop runs (lines 411-424), over the keys *)
(* in the order KEYS vector:* lists them.  HGET key doc_id raises for a    *)
(* key that holds no hash (WRONGTYPE) and answers None for a hash without  *)
(* the field.                                                              *)
(***************************************************************************)
\* a key vector:{id} that holds a string, not a hash
WrongType == [wrongtype |-> TRUE]

\* a hash vector:{id} without a doc_id field
Anonymous(key) ==
    [ vector |-> EncodeVector(EmbedWith("openai", "ta")),
      content |-> "ta", doc_id |-> Absent, chunk_id |-> key, tags |-> {},
      chunk_index |-> 0 ]

HgetRaises(rec) == rec = WrongType

\* hget(key, "doc_id"): None for a missing key or field
Hget(rec) == IF rec = NoRecord THEN Absent ELSE rec.doc_id

\* line 424 `continue` and its replacement by `break`
Break(keys) == <<>>

Continue(keys) == Tail(keys)

RECURSIVE DeleteLoop(_, _, _, _)
DeleteLoop(store, keys, doc_id, deleted_count) ==
    IF keys = <<>> THEN [store |-> store, deleted_count |-> deleted_count]
    ELSE LET key == Head(keys)
         IN IF HgetRaises(store[key])
            THEN DeleteLoop(store, Continue(keys), doc_id, deleted_count)
            ELSE IF Hget(store[key]) # Absent /\ Hget(store[key]) = doc_id
            THEN DeleteLoop([store EXCEPT ![key] = NoRecord], Tail(keys), doc_id,
                            deleted_count + 1)
            ELSE DeleteLoop(store, Tail(keys), doc_id, deleted_count)

\* keysOk: whether KEYS vector:* is answered (else the outer except, line 434)
DeleteDocumentVectorsCall(doc_id, order, keysOk) ==
    /\ LET done == IF keysOk THEN DeleteLoop(vectors, order, doc_id, 0)
                   ELSE [store |-> vectors, deleted_count |-> 0]
       IN /\ vectors' = done.store
          /\ stats' = IF keysOk THEN IncrBy(stats, "vectors_deleted", done.deleted_count)
                      ELSE stats
          /\ last_call' = [ op |-> "delete_document_vectors", doc_id |-> doc_id,
                            order |-> order, store |-> vectors, raised |-> ~keysOk,
                            deleted_count |-> done.deleted_count,
                            returned |-> keysOk /\ done.deleted_count > 0 ]
    /\ UNCHANGED <<response_times, store_client, documents, doc_chunks, doc_chunk,
                   doc_index, search_cache, embedding_cache, initialized,
                   processing_status, background_tasks, issued, prior, last, last_add,
                   last_delete, deleted, calls, embedding_method, vector_index,
                   inflight>>

\* a value written under vector:{key} by something other than this service
StoreForeignRecord(key, rec) ==
    /\ vectors[key] = NoRecord
    /\ key \notin issued
    /\ vectors' = [vectors EXCEPT ![key] = rec]
    /\ issued' = issued \cup {key}
    /\ UNCHANGED <<documents, doc_chunks, doc_chunk, doc_index, search_cache, stats,
                   response_times, store_client, embedding_cache, initialized,
                   processing_status, background_tasks, prior, last, last_add,
                   last_delete, deleted, calls, embedding_method, vector_index,
                   inflight, last_call>>

(***************************************************************************)
(* EmbeddingService._initialize_providers (embedding_service.py:24-93),    *)
(* run when a process of the service starts: with an OpenAI key the        *)
(* provider is "openai", without one the local model.  The state of the    *)
(* process starts afresh; the store keeps what it holds.                   *)
(***************************************************************************)
InitializeProviders(method) ==
    /\ embedding_method' = method
    /\ embedding_cache' = {}
    /\ initialized' = FALSE
    /\ processing_status' = [d \in DocIds |-> NoStatus]
    /\ background_tasks' = 0
    /\ searching' = [t \in Tasks |-> NoTask]
    /\ adding' = [w \in Writers |-> NoTask]
    /\ UNCHANGED <<vectors, documents, doc_chunks, doc_chunk, doc_index, search_cache,
                   stats, response_times, store_client, issued, prior, last, last_add, last_delete, deleted, calls,
                   vector_index, last_call>>

(***************************************************************************)
(* initialize_vector_index called by itself, as the startup hook           *)
(* (main.py:48) and the admin endpoints (vector_admin.py:51, 280) do,      *)
(* whatever `initialized` is.                                              *)
(***************************************************************************)
InitializeVectorIndex(importOk, infoOk, createOk) ==
    /\ vector_index' = InitializeIndex(vector_index, importOk, infoOk, createOk)
    /\ initialized' = TRUE
    /\ last_call' = [ op |-> "initialize", raised |-> FALSE,
                      supported |-> importOk /\ createOk, ready |-> initialized',
                      before |-> vector_index, after |-> vector_index' ]
    /\ UNCHANGED <<vectors, documents, doc_chunks, doc_chunk, doc_index, search_cache,
                   stats, response_times, store_client, embedding_cache, processing_status, background_tasks, issued,
                   prior, last, last_add, last_delete, deleted, calls, embedding_method,
                   inflight>>

(***************************************************************************)
(* _execute_redis_stack_search (vector_search_service.py:197-281), the     *)
(* index query.  search_vectors does not call it (lines 172-178 go         *)
(* straight to the brute-force scan); it is modelled as a call of its own. *)
(* indexOk: the client is there and ft(name).info() answers.  Each pass of *)
(* the loop at 240 sends one query; the first that succeeds returns, and   *)
(* when the list is used up line 277 raises.                               *)
(***************************************************************************)
SameSyntax(i) == i

\* `for i, vector_query in enumerate(query_syntaxes)`
NextSyntax(i) == i + 1

KnnRunning == last_call.op = "knn" /\ last_call.pc = "trying"

Knn(pc, syntax, attempts, raised) ==
    [op |-> "knn", pc |-> pc, syntax |-> syntax, attempts |-> attempts, raised |-> raised]

ExecuteRedisStackSearch(indexOk) ==
    /\ ~KnnRunning
    /\ last_call' = IF indexOk THEN Knn("trying", 1, 0, FALSE) ELSE Knn("done", 1, 0, TRUE)
    /\ UNCHANGED <<vectors, documents, doc_chunks, doc_chunk, doc_index, search_cache,
                   stats, response_times, store_client, embedding_cache, initialized, processing_status,
                   background_tasks, issued, prior, last, last_add, last_delete,
                   deleted, calls, embedding_method, vector_index, inflight>>

TrySyntax(ok) ==
    /\ KnnRunning
    /\ last_call' =
          IF ok THEN Knn("done", last_call.syntax, last_call.attempts + 1, FALSE)
          ELSE IF NextSyntax(last_call.syntax) > QuerySyntaxes
               THEN Knn("done", last_call.syntax, last_call.attempts + 1, TRUE)
               ELSE Knn("trying", NextSyntax(last_call.syntax), last_call.attempts + 1, FALSE)
    /\ UNCHANGED <<vectors, documents, doc_chunks, doc_chunk, doc_index, search_cache,
                   stats, response_times, store_client, embedding_cache, initialized, processing_status,
                   background_tasks, issued, prior, last, last_add, last_delete,
                   deleted, calls, embedding_method, vector_index, inflight>>

(***************************************************************************)
(* A direct call of _serialize_vector, as POST                             *)
(* /api/vector-admin/test-vector-serialization makes (vector_admin.py:319).*)
(***************************************************************************)
TestVectors ==
    { <<1>>, <<3, 4>>, <<1, 2, 2>>, <<0, -3>>, <<16777217, -16777219>>,
      <<33554434, 33554438>>, <<-5, 16777215>> }

TestVectorSerialization(v) ==
    /\ last_call' = [ op |-> "serialize", vector |-> v, raised |-> SerializeRaises(v),
                      status |-> IF SerializeRaises(v) THEN 500 ELSE 200,
                      deserialized |-> IF SerializeRaises(v) THEN <<>>
                                       ELSE DeserializeVector(SerializeVector(v)) ]
    /\ UNCHANGED <<vectors, documents, doc_chunks, doc_chunk, doc_index, search_cache,
                   stats, response_times, store_client, embedding_cache, initialized, processing_status,
                   background_tasks, issued, prior, last, last_add, last_delete,
                   deleted, calls, embedding_method, vector_index, inflight>>

(***************************************************************************)
(* A record left in the store by a release that wrote the vector as raw    *)
(* float32 bytes (vector_search_service.py:108): its "vector" field is not *)
(* base64 text of float32 values.                                          *)
(***************************************************************************)
LegacyRecord(key, doc_id) ==
    [ vector |-> [fmt |-> "raw", data |-> EmbedWith("openai", "ta")],
      content |-> "ta", doc_id |-> doc_id, chunk_id |-> key, tags |-> {},
      chunk_index |-> 0 ]

StoreLegacyRecord(key, doc_id) ==
    /\ vectors[key] = NoRecord
    /\ key \notin issued
    /\ vectors' = [vectors EXCEPT ![key] = LegacyRecord(key, doc_id)]
    /\ issued' = issued \cup {key}
    /\ UNCHANGED <<documents, doc_chunks, doc_chunk, doc_index, search_cache, stats, response_times, store_client,
                   embedding_cache, initialized, processing_status, background_tasks,
                   prior, last, last_add, last_delete, deleted, calls, embedding_method,
                   vector_index, inflight, last_call>>

(***************************************************************************)
(* scripts/simple_demo_loader.py:181-205: a document record and its index  *)
(* entry, without chunks or vectors.                                       *)
(***************************************************************************)
LoadDemoDocument(doc_id) ==
    /\ doc_id \notin issued
    /\ issued' = issued \cup {doc_id}
    /\ documents' = [documents EXCEPT ![doc_id] =
                        [id |-> doc_id, has_file_path |-> FALSE, chunk_count |-> 0]]
    /\ doc_index' = doc_index \cup {doc_id}
    /\ UNCHANGED <<vectors, doc_chunks, doc_chunk, search_cache, stats, response_times, store_client, embedding_cache,
                   initialized, processing_status, background_tasks, prior, last,
                   last_add, last_delete, deleted, calls, embedding_method,
                   vector_index, inflight, last_call>>

(***************************************************************************)
(* POST /api/documents/upload (documents.py:14-49).                        *)
(***************************************************************************)
UploadDocument(doc_id) ==
    /\ doc_id \notin issued
    /\ issued' = issued \cup {doc_id}
    /\ processing_status' = UpdateStatus(processing_status, doc_id, "queued", 0)
    /\ UNCHANGED <<vectors, documents, doc_chunks, doc_chunk, doc_index, search_cache,
                   stats, response_times, store_client, embedding_cache, initialized, background_tasks, prior, last,
                   last_add, last_delete, deleted, calls, embedding_method,
                   vector_index, inflight, last_call>>

(***************************************************************************)
(* DocumentProcessor.process_document (document_processor.py:22-182), run  *)
(* as the background task of an upload (documents.py:112-125).             *)
(***************************************************************************)
\* line 92: set_json("doc:{doc_id}", document), before the chunks are stored
StoreDocument(docs, doc_id, chunks) ==
    [docs EXCEPT ![doc_id] = [id |-> doc_id, has_file_path |-> TRUE,
                              chunk_count |-> Len(chunks),
                              vectors_generated |-> Absent]]

CleanupKeepingDocument(docs, doc_id) == docs

\* _cleanup_failed_processing, line 292: delete("doc:{doc_id}")
CleanupDocument(docs, doc_id) == [docs EXCEPT ![doc_id] = NoRecord]

IsFresh(c) == c \notin issued

\* the next uuid4 values, never handed out before
FreshChunkIds == SelectSeq(ChunkOrder, IsFresh)

\* text_chunker.chunk_text (text_chunker.py:20-79): dicts with "chunk_id"
\* and without "id" or "tags"
ChunkerChunks(texts, ids) ==
    [i \in DOMAIN texts |-> Chunk(Absent, ids[i], TRUE, texts[i], TRUE, {}, i - 1)]

\* lines 96-98 read chunk['id']
ChunkIdRaises(chunks) == \E i \in DOMAIN chunks : chunks[i].id = Absent

\* lines 120-136: the second batch, with the document's tags
DocumentTags == {"small"}

ChunksData(chunks) ==
    [i \in DOMAIN chunks |->
        Chunk(Absent, chunks[i].id, TRUE, chunks[i].text, TRUE, DocumentTags,
              chunks[i].chunk_index)]

TextSeqs == UNION {[1..n -> {"ta", "tb"}] : n \in 0..Min(MaxBatch, Len(ChunkOrder))}

ProcessDocumentRun(doc_id, valid, extracted, texts, providerOk) ==
    /\ Len(texts) <= Len(FreshChunkIds)
    /\ LET chunks == ChunkerChunks(texts, FreshChunkIds)
           first == AddVectors(vectors, doc_id, chunks, embedding_cache, providerOk)
           ecache1 == EmbeddingCacheAfter(chunks, embedding_cache, providerOk)
           stats1 == IF first.raised THEN stats
                     ELSE IncrBy(stats, "vectors_created", Len(first.writes))
       IN IF ~valid \/ ~extracted \/ chunks = <<>>
          THEN \* ValueError before anything is stored; _cleanup_failed_processing
               /\ processing_status' = UpdateStatus(processing_status, doc_id, "failed", 0)
               /\ documents' = CleanupDocument(documents, doc_id)
               /\ doc_index' = doc_index \ {doc_id}
               /\ doc_chunks' = [doc_chunks EXCEPT ![doc_id] = NoRecord]
               /\ UNCHANGED <<vectors, doc_chunk, stats, response_times, store_client, embedding_cache, initialized,
                              issued, vector_index>>
          ELSE IF ChunkIdRaises(chunks)
          THEN \* the first batch is stored, doc:{id} is written, then KeyError
               /\ vectors' = first.store
               /\ UNCHANGED <<response_times, store_client>>
               /\ stats' = stats1
               /\ embedding_cache' = ecache1
               /\ initialized' = TRUE
               /\ vector_index' = IndexAfterUse
               /\ issued' = issued \cup {chunks[i].chunk_id : i \in DOMAIN chunks}
               /\ processing_status' = UpdateStatus(processing_status, doc_id, "failed", 0)
               /\ documents' = CleanupDocument(StoreDocument(documents, doc_id, chunks),
                                               doc_id)
               /\ doc_index' = doc_index \ {doc_id}
               /\ doc_chunks' = [doc_chunks EXCEPT ![doc_id] = NoRecord]
               /\ UNCHANGED doc_chunk
          ELSE LET second == AddVectors(first.store, doc_id, ChunksData(chunks),
                                        ecache1, providerOk)
               IN /\ vectors' = second.store
                  /\ UNCHANGED <<response_times, store_client>>
                  /\ stats' = LET st2 == IncrBy(Incr(stats1, {"documents_processed"}),
                                               "chunks_created", Len(chunks))
                              IN IF second.raised THEN st2
                                 ELSE IncrBy(st2, "vectors_created", Len(second.writes))
                  /\ embedding_cache' = ecache1
                  /\ initialized' = TRUE
                  /\ vector_index' = IndexAfterUse
                  /\ issued' = issued \cup {chunks[i].id : i \in DOMAIN chunks}
                  /\ processing_status' = UpdateStatus(processing_status, doc_id, "completed", 100)
                  /\ documents' = [documents EXCEPT ![doc_id] =
                                     [id |-> doc_id, has_file_path |-> TRUE,
                                      chunk_count |-> Len(chunks),
                                      \* line 140, or "vector_error" at 149
                                      vectors_generated |->
                                          IF second.raised THEN Absent
                                          ELSE Len(second.writes)]]
                  /\ doc_chunk' = doc_chunk \cup {chunks[i].id : i \in DOMAIN chunks}
                  /\ doc_chunks' = [doc_chunks EXCEPT ![doc_id] =
                                      [i \in DOMAIN chunks |-> chunks[i].id]]
                  /\ doc_index' = doc_index \cup {doc_id}
    /\ deleted' = deleted \ {doc_id}
    /\ UNCHANGED <<search_cache, background_tasks, prior, last, last_add, last_delete,
                   calls, embedding_method, inflight>>

\* the background task of an upload: the document is queued
ProcessDocument(doc_id, valid, extracted, texts, providerOk) ==
    /\ processing_status[doc_id].status = "queued"
    /\ ProcessDocumentRun(doc_id, valid, extracted, texts, providerOk)
    /\ UNCHANGED last_call

(***************************************************************************)
(* process_document as the event loop runs it: one action per stretch of   *)
(* code between two awaits (validate_file, save_file, extract_text,        *)
(* chunk_text, add_document_vectors), and one for the update to "storing",  *)
(* which the code reaches without an await in between.  The call of        *)
(* add_document_vectors is an `adding` call of a writer; its batch are the *)
(* chunks of the run.                                                      *)
(***************************************************************************)
AtStage(doc_id, status, progress) == processing_status[doc_id] = Status(status, progress)

\* the except clause (lines 176-182) and _cleanup_failed_processing; the
\* handler of _process_document_background records "failed" once more
ProcessFail(doc_id) ==
    /\ processing_status' = UpdateStatus(processing_status, doc_id, "failed", 0)
    /\ documents' = CleanupDocument(documents, doc_id)
    /\ doc_index' = doc_index \ {doc_id}
    /\ doc_chunks' = [doc_chunks EXCEPT ![doc_id] = NoRecord]

ProcessAdvance(doc_id, status, progress) ==
    /\ processing_status' = UpdateStatus(processing_status, doc_id, status, progress)
    /\ UNCHANGED <<documents, doc_index, doc_chunks>>

ProcessOthers ==
    <<vectors, doc_chunk, search_cache, stats, response_times, store_client,
      embedding_cache, initialized, background_tasks, issued, prior, last, last_add,
      last_delete, deleted, calls, embedding_method, vector_index, inflight, last_call>>

\* lines 22-30: the task starts
ProcessBegin(doc_id) ==
    /\ AtStage(doc_id, "queued", 0)
    /\ ProcessAdvance(doc_id, "validating", 5)
    /\ UNCHANGED ProcessOthers

\* lines 30-36
ProcessValidated(doc_id, valid) ==
    /\ AtStage(doc_id, "validating", 5)
    /\ IF valid THEN ProcessAdvance(doc_id, "saving", 10) ELSE ProcessFail(doc_id)
    /\ UNCHANGED ProcessOthers

\* lines 36-40
ProcessSaved(doc_id, saved) ==
    /\ AtStage(doc_id, "saving", 10)
    /\ IF saved THEN ProcessAdvance(doc_id, "extracting", 25) ELSE ProcessFail(doc_id)
    /\ UNCHANGED ProcessOthers

\* lines 40-49
ProcessExtracted(doc_id, extracted) ==
    /\ AtStage(doc_id, "extracting", 25)
    /\ IF extracted THEN ProcessAdvance(doc_id, "chunking", 50) ELSE ProcessFail(doc_id)
    /\ UNCHANGED ProcessOthers

\* lines 49-62: the chunks, and the first call of add_document_vectors
ProcessChunked(doc_id, w, texts, providerOk) ==
    /\ AtStage(doc_id, "chunking", 50)
    /\ adding[w] = NoTask
    /\ Len(texts) <= Len(FreshChunkIds)
    /\ LET chunks == ChunkerChunks(texts, FreshChunkIds)
       IN IF chunks = <<>>
          THEN /\ ProcessFail(doc_id)
               /\ UNCHANGED <<adding, embedding_cache, initialized, vector_index, issued>>
          ELSE /\ ProcessAdvance(doc_id, "generating_vectors", 65)
               /\ adding' = [adding EXCEPT ![w] =
                     IF BatchRaises(chunks, embedding_cache, providerOk)
                     THEN [ pc |-> "done", doc_id |-> doc_id, batch |-> chunks,
                            raised |-> TRUE, writes |-> <<>>,
                            before |-> PresentKeys(vectors) ]
                     ELSE [ pc |-> "writing", doc_id |-> doc_id, batch |-> chunks,
                            next |-> 1, writes |-> <<>>,
                            before |-> PresentKeys(vectors) ]]
               /\ embedding_cache' = EmbeddingCacheAfter(chunks, embedding_cache, providerOk)
               /\ initialized' = TRUE
               /\ vector_index' = IndexAfterUse
               /\ issued' = issued \cup {ChunkKey(chunks[i]) : i \in DOMAIN chunks}
    /\ UNCHANGED <<vectors, doc_chunk, search_cache, stats, response_times, store_client,
                   background_tasks, prior, last, last_add, last_delete, deleted, calls,
                   embedding_method, searching, last_call>>

\* lines 62-70: add_document_vectors has returned or raised
ProcessVectorsAdded(doc_id, w) ==
    /\ AtStage(doc_id, "generating_vectors", 65)
    /\ adding[w].pc = "done" /\ adding[w].doc_id = doc_id
    /\ ProcessAdvance(doc_id, "storing", 75)
    /\ UNCHANGED ProcessOthers

\* lines 70-182.  doc:{doc_id} is written and chunk['id'] is read: KeyError
\* for the chunks of the chunker.  Chunks with an id would be stored, the
\* second batch added and the run completed.
ProcessStored(doc_id, w, providerOk) ==
    /\ AtStage(doc_id, "storing", 75)
    /\ adding[w].pc = "done" /\ adding[w].doc_id = doc_id
    /\ adding' = [adding EXCEPT ![w] = NoTask]
    /\ LET chunks == adding[w].batch
           second == AddVectors(vectors, doc_id, ChunksData(chunks), embedding_cache,
                                providerOk)
       IN IF ChunkIdRaises(chunks)
          THEN /\ ProcessFail(doc_id)
               /\ UNCHANGED <<vectors, doc_chunk, stats, embedding_cache>>
          ELSE /\ processing_status' =
                      UpdateStatus(UpdateStatus(processing_status, doc_id,
                                                "generating_vectors", 85),
                                   doc_id, "completed", 100)
               /\ vectors' = second.store
               /\ stats' = LET st2 == IncrBy(Incr(stats, {"documents_processed"}),
                                            "chunks_created", Len(chunks))
                           IN IF second.raised THEN st2
                              ELSE IncrBy(st2, "vectors_created", Len(second.writes))
               /\ embedding_cache' = EmbeddingCacheAfter(ChunksData(chunks),
                                                         embedding_cache, providerOk)
               /\ documents' = [documents EXCEPT ![doc_id] =
                                  [id |-> doc_id, has_file_path |-> TRUE,
                                   chunk_count |-> Len(chunks),
                                   vectors_generated |->
                                       IF second.raised THEN Absent
                                       ELSE Len(second.writes)]]
               /\ doc_chunk' = doc_chunk \cup {chunks[i].id : i \in DOMAIN chunks}
               /\ doc_chunks' = [doc_chunks EXCEPT ![doc_id] =
                                   [i \in DOMAIN chunks |-> chunks[i].id]]
               /\ doc_index' = doc_index \cup {doc_id}
    /\ UNCHANGED <<search_cache, response_times, store_client, initialized,
                   background_tasks, issued, prior, last, last_add, last_delete,
                   deleted, calls, embedding_method, vector_index, searching,
                   last_call>>

(***************************************************************************)
(* DocumentProcessor.process_documents_batch (document_processor.py:       *)
(* 369-410).  The documents are processed in slices of MAX_CONCURRENT_DOCS *)
(* tasks handed to asyncio.gather(..., return_exceptions=True); the        *)
(* results of a slice are appended in the order of the slice once all its  *)
(* tasks have finished.  A document is a dict with a filename (here its    *)
(* number) and an optional doc_id; without one process_document draws a    *)
(* uuid4, whose status entry lies outside DocIds, and such a document is   *)
(* taken to fail its validation, before anything is stored.  The call in   *)
(* progress is kept in last_call.                                          *)
(***************************************************************************)
DocumentData(filename, doc_id) == [filename |-> filename, doc_id |-> doc_id]

DocumentsData ==
    UNION {{[k \in 1..n |-> DocumentData(k, ids[k])] :
               ids \in {f \in [1..n -> DocIds \cup {Absent}] :
                           \A a, b \in 1..n : (a # b /\ f[a] # Absent) => f[a] # f[b]}} :
           n \in 0..MaxDocs}

Pending == [pc |-> "pending"]

Running == [pc |-> "running"]

TaskResult(raised, doc_id) == [pc |-> "done", raised |-> raised, doc_id |-> doc_id]

BatchSliceAll(documents_data, i) == SubSeq(documents_data, i + 1, Len(documents_data))

\* documents_data[i:i + MAX_CONCURRENT_DOCS]
BatchSlice(documents_data, i) ==
    SubSeq(documents_data, i + 1, Min(i + MaxConcurrentDocs, Len(documents_data)))

\* batch_tasks: one coroutine for each document of the slice
BatchTasks(batch) == [j \in DOMAIN batch |-> Pending]

\* lines 397-402
BatchEntry(doc_data, result) ==
    IF result.raised THEN [error |-> TRUE, filename |-> doc_data.filename]
    ELSE [error |-> FALSE, doc_id |-> result.doc_id, status |-> "success"]

BatchRunning == last_call.op = "process_documents_batch" /\ ~last_call.returned

\* one call in a run of the service
ProcessDocumentsBatch(documents_data) ==
    /\ last_call.op # "process_documents_batch"
    /\ \A k \in DOMAIN documents_data :
          documents_data[k].doc_id # Absent =>
             processing_status[documents_data[k].doc_id] = NoStatus
    /\ last_call' = [ op |-> "process_documents_batch",
                      documents_data |-> documents_data, i |-> 0,
                      tasks |-> BatchTasks(BatchSlice(documents_data, 0)),
                      results |-> <<>>, returned |-> documents_data = <<>> ]
    /\ UNCHANGED <<OtherCalls, store_client>>

\* a task of the slice starts: process_document up to its first await
BatchTaskBegin(j) ==
    /\ BatchRunning
    /\ j \in DOMAIN last_call.tasks
    /\ last_call.tasks[j] = Pending
    /\ LET doc_data == BatchSlice(last_call.documents_data, last_call.i)[j]
       IN processing_status' =
             IF doc_data.doc_id = Absent THEN processing_status
             ELSE UpdateStatus(processing_status, doc_data.doc_id, "validating", 5)
    /\ last_call' = [last_call EXCEPT !.tasks[j] = Running]
    /\ UNCHANGED <<vectors, documents, doc_chunks, doc_chunk, doc_index, search_cache,
                   stats, response_times, store_client, embedding_cache, initialized,
                   background_tasks, issued, prior, last, last_add, last_delete,
                   deleted, calls, embedding_method, vector_index, inflight>>

\* the rest of process_document and the except clause of process_single_doc
BatchTaskEnd(j, valid, extracted, texts, providerOk) ==
    /\ BatchRunning
    /\ j \in DOMAIN last_call.tasks
    /\ last_call.tasks[j] = Running
    /\ LET doc_data == BatchSlice(last_call.documents_data, last_call.i)[j]
       IN IF doc_data.doc_id = Absent
          THEN \* validate_file rejects the file
               /\ ~valid /\ ~extracted /\ texts = <<>> /\ ~providerOk
               /\ last_call' = [last_call EXCEPT !.tasks[j] = TaskResult(TRUE, Absent)]
               /\ UNCHANGED <<OtherCalls, store_client>>
          ELSE /\ ProcessDocumentRun(doc_data.doc_id, valid, extracted, texts, providerOk)
               /\ last_call' =
                     [last_call EXCEPT !.tasks[j] =
                         TaskResult(processing_status'[doc_data.doc_id].status # "completed",
                                    doc_data.doc_id)]

\* gather has returned: lines 397-405, and the next slice or the return
BatchCollect ==
    /\ BatchRunning
    /\ \A j \in DOMAIN last_call.tasks : last_call.tasks[j].pc = "done"
    /\ LET documents_data == last_call.documents_data
           batch == BatchSlice(documents_data, last_call.i)
           next == last_call.i + MaxConcurrentDocs
           results == last_call.results \o
                         [j \in DOMAIN batch |-> BatchEntry(batch[j], last_call.tasks[j])]
       IN last_call' =
             IF next < Len(documents_data)
             THEN [last_call EXCEPT !.results = results, !.i = next,
                                    !.tasks = BatchTasks(BatchSlice(documents_data, next))]
             ELSE [last_call EXCEPT !.results = results, !.i = next, !.tasks = <<>>,
                                    !.returned = TRUE]
    /\ UNCHANGED <<OtherCalls, store_client>>

(***************************************************************************)
(* DocumentProcessor.delete_document: the definition at                    *)
(* document_processor.py:437-476, which replaces the one at 306-359 in the *)
(* class body, behind DELETE /api/documents/{doc_id} (documents.py:95-110).*)
(***************************************************************************)
DeleteDocument(doc_id, fileOk) ==
    LET doc == documents[doc_id]
        before == Cardinality(PresentKeys(vectors))
        owned == Cardinality(KeysOfDoc(vectors, doc_id))
        outcome(success) == [ op |-> "delete", doc_id |-> doc_id, success |-> success,
                              before |-> before, owned |-> owned,
                              after |-> Cardinality(PresentKeys(vectors')) ]
    IN /\ UNCHANGED vectors
       /\ IF doc = NoRecord
          THEN /\ last_delete' = outcome(FALSE)
               /\ UNCHANGED <<documents, doc_chunks, doc_chunk, doc_index, stats, response_times, store_client, deleted>>
          ELSE /\ doc_chunk' = IF doc_chunks[doc_id] = NoRecord THEN doc_chunk
                               ELSE doc_chunk \ {doc_chunks[doc_id][i] :
                                                    i \in DOMAIN doc_chunks[doc_id]}
               /\ doc_chunks' = [doc_chunks EXCEPT ![doc_id] = NoRecord]
               /\ documents' = [documents EXCEPT ![doc_id] = NoRecord]
               /\ doc_index' = doc_index \ {doc_id}
               /\ IF doc.has_file_path /\ ~fileOk
                  THEN \* delete_file raises: the except clause returns False
                       /\ last_delete' = outcome(FALSE)
                       /\ UNCHANGED <<stats, response_times, store_client, deleted>>
                  ELSE /\ UNCHANGED <<response_times, store_client>>
                       /\ stats' = IncrBy(IncrBy(stats, "documents_processed", -1),
                                          "chunks_created",
                                          IF doc_chunks[doc_id] = NoRecord THEN 0
                                          ELSE 0 - Len(doc_chunks[doc_id]))
                       /\ last_delete' = outcome(TRUE)
                       /\ deleted' = deleted \cup {doc_id}
       /\ UNCHANGED <<search_cache, embedding_cache, initialized, processing_status,
                      background_tasks, issued, prior, last, last_add, calls,
                      embedding_method, vector_index, inflight, last_call>>

(***************************************************************************)
(* The whole service: every operation, one request, one batch shape and    *)
(* no faults.                                                              *)
(***************************************************************************)
Next ==
    \/ \E order \in Orders(PresentKeys(vectors)) :
          SearchDocuments(PlainRequest, order, "none")
    \/ UpdateSearchAnalytics(TRUE)
    \/ ClearSearchCache
    \/ ExpireCacheEntry(PlainRequest)
    \/ \E d \in DocIds : AddDocumentVectors(d, ShapedBatch(<<"ta", "tb">>), TRUE)
    \/ \E d \in DocIds : DeleteDocumentVectors(d)
    \/ \E d \in DocIds : LoadDemoDocument(d)
    \/ \E d \in DocIds : UploadDocument(d)
    \/ \E d \in DocIds, valid \in BOOLEAN :
          ProcessDocument(d, valid, TRUE, <<"ta">>, TRUE)
    \/ \E d \in DocIds : DeleteDocument(d, TRUE)

Spec == Init /\ [][Next]_vars

(***************************************************************************)
(* Searching an indexed store: well-formed batches, no faults.             *)
(***************************************************************************)
NextSearch ==
    \/ \E req \in Requests :
          \E order \in Orders(PresentKeys(vectors)) : SearchDocuments(req, order, "none")
    \/ UpdateSearchAnalytics(TRUE)
    \/ \E d \in DocIds, batch \in SearchableBatches : AddDocumentVectors(d, batch, TRUE)

SpecSearch == Init /\ [][NextSearch]_vars

(***************************************************************************)
(* The result cache: entries are written by searches and removed by the    *)
(* clear endpoint or by the store when their TTL runs out.                 *)
(***************************************************************************)
NextCache ==
    \/ \E req \in Requests :
          \E order \in Orders(PresentKeys(vectors)) : SearchDocuments(req, order, "none")
    \/ ClearSearchCache
    \/ \E req \in Requests : ExpireCacheEntry(req)
    \/ \E d \in DocIds : AddDocumentVectors(d, ShapedBatch(<<"ta", "tb">>), TRUE)

SpecCache == Init /\ [][NextCache]_vars

(***************************************************************************)
(* Search requests running as concurrent tasks while a document is added.  *)
(***************************************************************************)
NextStampede ==
    \/ \E t \in Tasks, req \in Requests :
          \E order \in Orders(PresentKeys(vectors)) : SearchBegin(t, req, order)
    \/ \E t \in Tasks : \E order \in Orders(PresentKeys(vectors)) : SearchResume(t, order)
    \/ \E d \in DocIds : AddDocumentVectors(d, ShapedBatch(<<"ta", "ta">>), TRUE)

SpecStampede == Init /\ [][NextStampede]_vars

(***************************************************************************)
(* One document being indexed while another client searches.               *)
(***************************************************************************)
PartialBatches ==
    { ShapedBatch(<<"ta", "tb">>), ShapedBatch(<<"tb", "ta">>),
      ShapedBatch(<<"ta", "no_word_count">>), ShapedBatch(<<"no_text", "ta">>) }

NextPartial ==
    \/ \E d \in DocIds, batch \in PartialBatches : AddBegin("w1", d, batch, TRUE)
    \/ AddStore("w1")
    \/ AddFinish("w1")
    \/ \E order \in Orders(PresentKeys(vectors)) : SearchDocuments(PlainRequest, order, "none")

SpecPartial == Init /\ [][NextPartial]_vars

(***************************************************************************)
(* Two documents being indexed at once.  Each document's chunker gives its *)
(* chunks ids of their own (uuid4, text_chunker.py:56); a chunk dict with  *)
(* neither "id" nor "chunk_id" gets the key of line 101.                   *)
(***************************************************************************)
IdsOf(doc_id) == IF doc_id = "d1" THEN <<"c1", "c2">> ELSE <<"c3">>

WriterBatches(doc_id) ==
    { ShapedBatchAt(<<"ta">>, IdsOf(doc_id)), ShapedBatchAt(<<"no_id">>, IdsOf(doc_id)) }
    \cup (IF Len(IdsOf(doc_id)) > 1
          THEN { ShapedBatchAt(<<"ta", "tb">>, IdsOf(doc_id)),
                 ShapedBatchAt(<<"ta", "no_id">>, IdsOf(doc_id)) }
          ELSE {})

DocOf(w) == IF w = "w1" THEN "d1" ELSE "d2"

NextWriters ==
    \/ \E w \in Writers, providerOk \in BOOLEAN :
          \E batch \in WriterBatches(DocOf(w)) : AddBegin(w, DocOf(w), batch, providerOk)
    \/ \E w \in Writers : AddStore(w)
    \/ \E w \in Writers : AddFinish(w)

SpecWriters == Init /\ [][NextWriters]_vars

(***************************************************************************)
(* Indexing: every shape of batch, the provider up or down.                *)
(***************************************************************************)
NextIndex ==
    \/ \E d \in DocIds, batch \in Batches, providerOk \in BOOLEAN :
          AddDocumentVectors(d, batch, providerOk)
    \/ \E d \in DocIds : DeleteDocumentVectors(d)
    \/ \E d \in DocIds : UploadDocument(d)
    \/ \E d \in DocIds, valid \in BOOLEAN, extracted \in BOOLEAN, texts \in TextSeqs,
          providerOk \in BOOLEAN : ProcessDocument(d, valid, extracted, texts, providerOk)

SpecIndex == Init /\ [][NextIndex]_vars

(***************************************************************************)
(* Searching while the embedding provider or the store fails.              *)
(***************************************************************************)
NextFaults ==
    \/ \E fault \in SearchFaults :
          \E order \in Orders(PresentKeys(vectors)) :
             SearchDocuments(PlainRequest, order, fault)
    \/ \E storeOk \in BOOLEAN : UpdateSearchAnalytics(storeOk)
    \/ ClearSearchCache
    \/ \E d \in DocIds : AddDocumentVectors(d, ShapedBatch(<<"ta", "tb">>), TRUE)

SpecFaults == Init /\ [][NextFaults]_vars

(***************************************************************************)
(* Indexing and searching under either embedding provider, with a legacy   *)
(* record in the store.                                                    *)
(***************************************************************************)
NextCodec ==
    \/ \E method \in Methods : InitializeProviders(method)
    \/ \E v \in TestVectors : TestVectorSerialization(v)
    \/ \E d \in DocIds : AddDocumentVectors(d, ShapedBatch(<<"ta", "tb">>), TRUE)
    \/ \E d \in DocIds : StoreLegacyRecord("c3", d)
    \/ \E order \in Orders(PresentKeys(vectors)) :
          SearchDocuments(PlainRequest, order, "none")

SpecCodec == Init /\ [][NextCodec]_vars

(***************************************************************************)
(* Preparing the index: at startup, on demand, and on first use, on        *)
(* engines with and without vector indexing, across restarts.              *)
(***************************************************************************)
NextReadiness ==
    \/ \E importOk, infoOk, createOk \in BOOLEAN :
          InitializeVectorIndex(importOk, infoOk, createOk)
    \/ \E method \in Methods : InitializeProviders(method)
    \/ \E d \in DocIds : AddDocumentVectors(d, ShapedBatch(<<"ta", "tb">>), TRUE)
    \/ \E order \in Orders(PresentKeys(vectors)) :
          SearchDocuments(PlainRequest, order, "none")

SpecReadiness == Init /\ [][NextReadiness]_vars

(***************************************************************************)
(* Search calls and index queries to their end.  The event loop resumes a  *)
(* task whose embedding has arrived, and a loop that can take its next     *)
(* pass takes it.                                                          *)
(***************************************************************************)
NextBounded ==
    \/ \E t \in Tasks, req \in Requests :
          \E order \in Orders(PresentKeys(vectors)) : SearchBegin(t, req, order)
    \/ \E t \in Tasks : \E order \in Orders(PresentKeys(vectors)) : SearchResume(t, order)
    \/ \E indexOk \in BOOLEAN : ExecuteRedisStackSearch(indexOk)
    \/ \E ok \in BOOLEAN : TrySyntax(ok)

SpecBounded ==
    /\ Init /\ [][NextBounded]_vars
    /\ \A t \in Tasks : WF_vars(\E order \in Orders(PresentKeys(vectors)) : SearchResume(t, order))
    /\ WF_vars(\E ok \in BOOLEAN : TrySyntax(ok))

(***************************************************************************)
(* search_vectors run repeatedly over a store that holds one document.     *)
(***************************************************************************)
NextRanking ==
    \/ \E req \in Requests : \E order \in Orders(PresentKeys(vectors)) :
          SearchVectorsCall(req, order)
    \/ \E d \in DocIds, batch \in SearchableBatches : AddDocumentVectors(d, batch, TRUE)

SpecRanking == Init /\ [][NextRanking]_vars

(***************************************************************************)
(* Similarities of vectors of norm 0: a chunk whose text has the all-zero  *)
(* embedding next to one that matches the query, and a query whose         *)
(* embedding is all-zero.                                                  *)
(***************************************************************************)
ZeroText == "tz"

ZeroRequests == {PlainRequest, Request(ZeroText, 2, 0, NoFilter)}

NextZero ==
    \/ \E d \in DocIds : AddDocumentVectors(d, ShapedBatch(<<ZeroText, "ta">>), TRUE)
    \/ \E method \in Methods : InitializeProviders(method)
    \/ \E text \in {ZeroText, "ta", "to"}, key \in VectorKeys :
          CalculateSimilarityCall(text, key)
    \/ \E req \in ZeroRequests : \E order \in Orders(PresentKeys(vectors)) :
          SearchVectorsCall(req, order)

SpecZero == Init /\ [][NextZero]_vars

(***************************************************************************)
(* Cache keys of requests arriving one after the other.                    *)
(***************************************************************************)
NextKey == \E q \in SearchQueries : GenerateCacheKey(q)

SpecKey == Init /\ [][NextKey]_vars

(***************************************************************************)
(* The two search paths over the same records: a document indexed by the   *)
(* service (similarities 1.0 and 0.969 to the query), a legacy record, the *)
(* index created, and each path run for the same request.                  *)
(***************************************************************************)
NextPaths ==
    \/ InitializeVectorIndex(TRUE, TRUE, TRUE)
    \/ \E d \in DocIds : AddDocumentVectors(d, ShapedBatch(<<"ta", "tb">>), TRUE)
    \/ \E d \in DocIds : StoreLegacyRecord("c3", d)
    \/ \E order \in Orders(PresentKeys(vectors)) : SearchVectorsCall(PlainRequest, order)
    \/ \E responseOk \in BOOLEAN : \E order \in Orders(PresentKeys(vectors)) :
          KnnSearchCall(PlainRequest, order, responseOk)

SpecPaths == Init /\ [][NextPaths]_vars

(***************************************************************************)
(* The store client, with a server that may or may not be reachable.       *)
(***************************************************************************)
NextStore ==
    \/ \E reachable \in BOOLEAN : HealthCheck(reachable)
    \/ \E key \in JsonKeys, data \in JsonData, reachable \in BOOLEAN :
          SetJson(key, data, reachable)
    \/ \E key \in JsonKeys, reachable \in BOOLEAN : GetJson(key, reachable)
    \/ \E key \in JsonKeys : DeleteKey(key)

SpecStore == Init /\ [][NextStore]_vars

(***************************************************************************)
(* The response-time window: searches of this process on an empty store,   *)
(* their background tasks, and the analytics tasks of two other workers.   *)
(***************************************************************************)
NextLatency ==
    \/ SearchDocuments(PlainRequest, <<>>, "none")
    \/ UpdateSearchAnalytics(TRUE)
    \/ \E t \in Tasks : AnalyticsPush(t)
    \/ \E t \in Tasks : AnalyticsTrim(t)

SpecLatency == Init /\ [][NextLatency]_vars

(***************************************************************************)
(* Indexing a document and indexing it again.                              *)
(***************************************************************************)
NextReindex ==
    \/ \E d \in DocIds : AddDocumentVectors(d, ShapedBatch(<<"ta", "tb">>), TRUE)
    \/ \E d \in DocIds, batch \in ReindexBatches, providerOk \in BOOLEAN :
          ReindexDocument(d, batch, providerOk)
    \/ \E d \in DocIds : DeleteDocumentVectors(d)
    \/ \E order \in Orders(PresentKeys(vectors)) :
          SearchDocuments(PlainRequest, order, "none")
    \/ ClearSearchCache

SpecReindex == Init /\ [][NextReindex]_vars

(***************************************************************************)
(* Deletions of a document's vectors from a store that holds the records   *)
(* of two documents and values whose doc_id cannot be read.                *)
(***************************************************************************)
NextDelete ==
    \/ \E key \in ChunkIds, d \in DocIds : StoreLegacyRecord(key, d)
    \/ \E key \in ChunkIds :
          \/ StoreForeignRecord(key, WrongType)
          \/ StoreForeignRecord(key, Anonymous(key))
    \/ \E d \in DocIds, order \in Orders(PresentKeys(vectors)), keysOk \in BOOLEAN :
          DeleteDocumentVectorsCall(d, order, keysOk)

SpecDelete == Init /\ [][NextDelete]_vars

(***************************************************************************)
(* Fallback scans of stores of up to MaxStored records.                    *)
(***************************************************************************)
ScanSizes == (MaxStored - 3)..MaxStored

NextScan ==
    \/ \E stored \in ScanSizes, best \in 1..MaxStored, filler \in {"tb", "to"} :
          best <= stored /\ PrepareScanStore(stored, best, filler)
    \/ \E limit \in 1..2 : ExecuteFallbackSearchCall(limit)

SpecScan == Init /\ [][NextScan]_vars

(***************************************************************************)
(* The cache manager: values set and read under one namespace, with and    *)
(* without params.                                                         *)
(***************************************************************************)
NextManager ==
    \/ \E n \in CacheNamespaces, k \in CacheNames, v \in CacheValues, p \in CacheParams :
          CacheSet(n, k, v, p)
    \/ \E n \in CacheNamespaces, k \in CacheNames, p \in CacheParams :
          CacheGet(n, k, p)

SpecManager == Init /\ [][NextManager]_vars

(***************************************************************************)
(* Uploads and the runs of their background tasks, step by step.           *)
(***************************************************************************)
NextStatus ==
    \/ \E d \in DocIds : UploadDocument(d)
    \/ \E d \in DocIds : ProcessBegin(d)
    \/ \E d \in DocIds, valid \in BOOLEAN : ProcessValidated(d, valid)
    \/ \E d \in DocIds, saved \in BOOLEAN : ProcessSaved(d, saved)
    \/ \E d \in DocIds, extracted \in BOOLEAN : ProcessExtracted(d, extracted)
    \/ \E d \in DocIds, w \in Writers, texts \in TextSeqs, providerOk \in BOOLEAN :
          ProcessChunked(d, w, texts, providerOk)
    \/ \E w \in Writers : AddStore(w)
    \/ \E w \in Writers : AddFinish(w)
    \/ \E d \in DocIds, w \in Writers : ProcessVectorsAdded(d, w)
    \/ \E d \in DocIds, w \in Writers, providerOk \in BOOLEAN :
          ProcessStored(d, w, providerOk)

SpecStatus == Init /\ [][NextStatus]_vars

(***************************************************************************)
(* Repeated searches, hits and misses in any order, their background       *)
(* tasks, the addition of a document and the clearing of the search cache. *)
(***************************************************************************)
NextHits ==
    \/ \E req \in Requests :
          \E order \in Orders(PresentKeys(vectors)) :
             SearchDocumentsUpTo(MaxSearches, req, order, "none")
    \/ UpdateSearchAnalytics(TRUE)
    \/ ClearSearchCache
    \/ \E d \in DocIds : AddDocumentVectors(d, ShapedBatch(<<"ta", "tb">>), TRUE)

SpecHits == Init /\ [][NextHits]_vars

(***************************************************************************)
(* The document records and doc:index: uploads and their processing,       *)
(* documents of the demo loader, and deletions.                            *)
(***************************************************************************)
NextDocs ==
    \/ \E d \in DocIds : UploadDocument(d)
    \/ \E d \in DocIds, valid \in BOOLEAN, extracted \in BOOLEAN, texts \in TextSeqs,
          providerOk \in BOOLEAN : ProcessDocument(d, valid, extracted, texts, providerOk)
    \/ \E d \in DocIds : LoadDemoDocument(d)
    \/ \E d \in DocIds, fileOk \in BOOLEAN : DeleteDocument(d, fileOk)

SpecDocs == Init /\ [][NextDocs]_vars

(***************************************************************************)
(* Batches of up to MaxDocs documents, processed slice by slice.           *)
(***************************************************************************)
NextBatch ==
    \/ \E documents_data \in DocumentsData : ProcessDocumentsBatch(documents_data)
    \/ \E j \in 1..MaxDocs : BatchTaskBegin(j)
    \/ \E j \in 1..MaxDocs, valid \in BOOLEAN, extracted \in BOOLEAN, texts \in TextSeqs,
          providerOk \in BOOLEAN : BatchTaskEnd(j, valid, extracted, texts, providerOk)
    \/ BatchCollect

SpecBatch == Init /\ [][NextBatch]_vars

(***************************************************************************)
(* Properties.                                                             *)
(***************************************************************************)
Answered == last.op = "search" /\ last.status = 200

Repeated == Answered /\ last.prior.seen /\ last.prior.status = 200

C2_DeleteRemovesVectors ==
    /\ last_delete.op = "delete" /\ last_delete.success =>
          last_delete.after = last_delete.before - last_delete.owned
    /\ \A d \in deleted : KeysOfDoc(vectors, d) = {}
    /\ Answered => \A i \in DOMAIN last.results : last.results[i].doc_id \notin last.deleted

C2_Witness ==
    /\ last_delete.op = "delete" /\ last_delete.success /\ last_delete.owned > 0
    /\ Answered /\ last_delete.doc_id \in last.deleted

\* C3 as stated: when every document owns exactly one stored chunk and the
\* number of documents is at most the limit, a search with threshold 0.0
\* returns one result per document, in descending order of similarity.
OwnersOf(store) == {store[k].doc_id : k \in PresentKeys(store)}

OneChunkEach(store) ==
    \A d \in OwnersOf(store) : Cardinality(KeysOfDoc(store, d)) = 1

Descending(results) ==
    \A i, j \in DOMAIN results :
        i < j => results[i].similarity_score >= results[j].similarity_score

C3_AllReturnedAtZero ==
    OneChunkEach(vectors) /\ Cardinality(OwnersOf(vectors)) <= PlainRequest.limit =>
        \A order \in Orders(PresentKeys(vectors)) :
            LET results == SearchVectors(vectors, order, PlainRequest.query,
                                         PlainRequest.limit, NoFilter, 0, TRUE, TRUE)
            IN /\ {results[i].doc_id : i \in DOMAIN results} = OwnersOf(vectors)
               /\ Len(results) = Cardinality(OwnersOf(vectors))
               /\ Descending(results)

C3_Witness == OneChunkEach(vectors) /\ OwnersOf(vectors) # {} /\ Answered

\* C4 as stated: every returned result has a similarity_score at or above
\* the request's threshold, and a higher threshold never yields more
\* results for the same query over the same store.
Thresholds == {r.similarity_threshold : r \in Requests}

CountAt(order, threshold) ==
    Len(SearchVectors(vectors, order, PlainRequest.query, PlainRequest.limit,
                      NoFilter, threshold, TRUE, TRUE))

\* A search never writes a vector, so every store the service reaches is
\* reached before the first request; the comparison is made there, once per
\* store, for the plain query under every threshold and key order.
ThresholdMonotone ==
    calls.searches = 0 =>
    \A order \in Orders(PresentKeys(vectors)) :
        LET count == [t \in Thresholds |-> CountAt(order, t)]
        IN  \A t1, t2 \in Thresholds : t1 < t2 => count[t2] <= count[t1]

C4_ScoreAtLeastThreshold ==
    /\ Answered => \A i \in DOMAIN last.results :
                      last.results[i].similarity_score >= last.request.similarity_threshold
    /\ ThresholdMonotone

\* C4 amended: the threshold is applied to the similarity before it is
\* rounded to four decimals, so a returned similarity_score is at most half
\* a rounding step (0.00005) below the threshold; a higher threshold never
\* yields more results.
HalfStep == 10 \div 2

C4_ScoreWithinRoundingOfThreshold ==
    /\ Answered => \A i \in DOMAIN last.results :
                      last.results[i].similarity_score + HalfStep
                          >= last.request.similarity_threshold
    /\ ThresholdMonotone

C4_Witness ==
    /\ Answered /\ ~last.cached
    /\ \E i \in DOMAIN last.results :
          last.results[i].similarity_score < last.request.similarity_threshold
    /\ \E order \in Orders(PresentKeys(vectors)) : CountAt(order, Unit) < CountAt(order, 0)

Position(order, c) == CHOOSE i \in DOMAIN order : order[i] = c

KeepsScanOrder(order, results) ==
    \A i, j \in DOMAIN results :
        i < j /\ results[i].similarity_score = results[j].similarity_score =>
            Position(order, results[i].chunk_id) < Position(order, results[j].chunk_id)

Satisfies(result, filters) ==
    filters.kind = "doc_id" => result.doc_id = filters.doc_id

C6_ResultsSatisfyFilters ==
    Answered => \A i \in DOMAIN last.results :
                   Satisfies(last.results[i], last.request.filters)

C6_Witness ==
    /\ Answered /\ last.request.filters.kind = "doc_id" /\ last.results # <<>>

\* C7 as stated: a search during which the embedding provider or the
\* vector store fails ends in an error, never in a successful response.
C7_FailureIsAnError ==
    last.op = "search" /\ last.fault \in {"embedding", "scan", "cache_get", "cache_set"} =>
        last.status = 500

C7_Witness == last.op = "search" /\ last.fault = "embedding"

\* C8 as stated: the total-searches counter counts every answered request
\* once, cache hits and misses alike, and the cache-hit counter counts every
\* request answered from the cache once.
C8_CountersCountRequests ==
    /\ stats["cache_hits"] = calls.hits
    /\ background_tasks = 0 => stats["total_searches"] = calls.searches

C8_Witness == calls.hits > 0 /\ calls.searches > calls.hits /\ background_tasks = 0

\* C9 as stated: a failure while recording analytics never fails the search
\* request, on the cache-hit path and on the miss path.
C9_AnalyticsFailureIsSwallowed ==
    last.op = "search" /\ last.fault = "stats" => last.status = 200

C9_Witness == last.op = "search" /\ last.fault = "stats" /\ search_cache[last.request] # NoEntry

\* C10 as stated: add_document_vectors never aborts a batch because of one
\* bad record: it writes every well-formed record, skips the others, and
\* returns the number of records written.
C10_BadRecordSkippedAlone ==
    last_add.op = "add" /\ last_add.providerOk =>
        /\ ~last_add.raised
        /\ last_add.writes = last_add.expected
        /\ last_add.returned = Len(last_add.writes)

C10_Witness ==
    /\ last_add.op = "add" /\ last_add.providerOk
    /\ last_add.expected # <<>> /\ last_add.writes # last_add.expected

\* C11 as stated: _serialize_vector raises for every vector whose length
\* differs from the configured dimensionality, and no record written by
\* add_document_vectors holds a vector of another length.
StoredLength(rec) == Len(DecodeVector(rec.vector))

C11_DimensionGuard ==
    /\ last_call.op = "serialize" =>
          (last_call.raised <=> Len(last_call.vector) # EmbeddingDimensions)
    /\ \A k \in PresentKeys(vectors) :
          DecodeOk(vectors[k].vector) => StoredLength(vectors[k]) = EmbeddingDimensions

C11_Witness ==
    /\ last_add.op = "add" /\ ~last_add.raised /\ last_add.writes # <<>>
    /\ \E k \in PresentKeys(vectors) :
          DecodeOk(vectors[k].vector) /\ StoredLength(vectors[k]) # EmbeddingDimensions

\* C12 as stated: a record whose vector cannot be decoded or has a length
\* other than the configured dimensionality never appears among the
\* candidates of the scan, and every valid record that clears the
\* similarity floor does, whatever else the store holds.
Corrupt(rec) == ~DecodeOk(rec.vector) \/ StoredLength(rec) # EmbeddingDimensions

ScanKeys(order) ==
    LET found == ScanVectors(vectors, order, Embed(PlainRequest.query), 0, <<>>)
    IN {found[i].id : i \in DOMAIN found}

ClearsFloor(rec) ==
    CalculateCosineSimilarity(EmbedWith("openai", PlainRequest.query),
                              DecodeVector(rec.vector)) >= MinSimilarity

C12_CorruptRecordIsolated ==
    \A order \in Orders(PresentKeys(vectors)) :
        /\ \A k \in ScanKeys(order) : ~Corrupt(vectors[k])
        /\ \A k \in PresentKeys(vectors) :
              ~Corrupt(vectors[k]) /\ ClearsFloor(vectors[k]) => k \in ScanKeys(order)

C12_Witness ==
    /\ Answered /\ ~last.cached
    /\ \E k \in PresentKeys(vectors) : Corrupt(vectors[k])
    /\ \E k \in PresentKeys(vectors) : ~Corrupt(vectors[k])

\* C13 as stated: once add_document_vectors has run again for a document
\* that had records, the store holds for that document exactly the records
\* of the new batch and none of the previous one.
Written(call) == {call.writes[i] : i \in DOMAIN call.writes}

C13_ReindexReplacesWholesale ==
    last_add.op = "add" /\ ~last_add.raised /\ last_add.owned_before # {} =>
        last_add.owned_after = Written(last_add)

C13_Witness ==
    /\ last_add.op = "add" /\ ~last_add.raised /\ last_add.owned_before # {}
    /\ last_add.owned_before \ Written(last_add) # {}
    /\ Answered /\ \E i \in DOMAIN last.results :
                      last.results[i].chunk_id \in last_add.owned_before \ Written(last_add)

\* C14 as stated: a cache entry whose time to live has passed is never
\* served: the request that finds only that entry is answered as a miss,
\* with cached = false, and no response is ever built from an expired entry.
AfterRemoval(why) == Answered /\ ~last.prior.seen /\ last.prior.after = why

C14_ExpiredEntryIsAMiss ==
    /\ AfterRemoval("expiry") => ~last.cached
    /\ \A r \in Requests :
          search_cache[r] # NoEntry => search_cache[r].ttl = SearchCacheTtl

C14_Witness == AfterRemoval("expiry") /\ last.results # <<>> /\ ~last.cached

\* C15 as stated: once clear_search_cache has run no cache entry exists, and
\* the next search for a request, be it one that was cached before or one
\* that never was, is answered with cached = false.
C15_ClearEmptiesCache ==
    /\ AfterRemoval("clear") \/ AfterRemoval("start") => ~last.cached
    /\ \A r \in Requests : ~prior[r].seen => search_cache[r] = NoEntry

C15_Witness == AfterRemoval("clear") /\ last.results # <<>> /\ ~last.cached

(***************************************************************************)
(* C16  Cache stampede.  When identical requests run concurrently on a     *)
(* cold cache, each that misses runs the search on its own; one whose      *)
(* result list is not empty writes it to the cache.  After all have        *)
(* finished, the entry is the complete result list of the last of them to  *)
(* write, never a mixture of two lists; when every list was empty there is *)
(* no entry.                                                               *)
(***************************************************************************)
Stampede ==
    /\ \A t \in Tasks : searching[t].pc = "done" /\ searching[t].yielded
    /\ \A t, u \in Tasks : searching[t].request = searching[u].request

StampedeWriters == {t \in Tasks : searching[t].results # <<>>}

LastWriter == CHOOSE t \in StampedeWriters : \A u \in StampedeWriters : searching[u].nth <= searching[t].nth

StampedeRequest == searching[CHOOSE t \in Tasks : TRUE].request

KeysUpTo(a, n) ==
    {ChunkKey(a.batch[i]) : i \in {j \in 1..n : ~RecordRaises(a.batch[j])}}

KeysFrom(a, n) ==
    {ChunkKey(a.batch[i]) : i \in {j \in n..Len(a.batch) : ~RecordRaises(a.batch[j])}}

ResultKeys(results) == {results[i].chunk_id : i \in DOMAIN results}

C17_BatchWrittenRecordByRecord ==
    \A w \in Writers : adding[w].pc = "writing" =>
       LET a == adding[w]
           written == KeysUpTo(a, a.next - 1)
           pending == KeysFrom(a, a.next) \ written
       IN /\ \A k \in written : vectors[k] # NoRecord /\ vectors[k].doc_id = a.doc_id
          /\ \A k \in pending \ a.before : vectors[k] = NoRecord
          /\ Answered /\ ~last.cached => ResultKeys(last.results) \cap pending \subseteq a.before

C17_Witness ==
    \E w \in Writers :
       /\ adding[w].pc = "writing"
       /\ Len(adding[w].batch) > 1
       /\ Answered /\ ~last.cached
       /\ ResultKeys(last.results) \cap KeysUpTo(adding[w], Len(adding[w].batch)) # {}
       /\ \E k \in KeysFrom(adding[w], adding[w].next) : vectors[k] = NoRecord
       /\ \A i \in DOMAIN last.results : last.results[i].doc_id = adding[w].doc_id

(***************************************************************************)
(* C18  No cross-document write conflicts.  After two concurrent           *)
(* add_document_vectors calls for different documents have both finished,  *)
(* every record either of them wrote is in the store under its own doc_id. *)
(***************************************************************************)
BothAdded == \A w \in Writers : adding[w].pc = "done" /\ ~adding[w].raised

IndexInitialized == last_call.op = "initialize"

C19_IndexCreatedAtMostOnce ==
    /\ vector_index.created <= 1
    /\ vector_index.exists <=> vector_index.created = 1
    /\ IndexInitialized =>
          /\ ~last_call.raised
          /\ last_call.ready
          /\ last_call.after # last_call.before =>
                /\ last_call.supported
                /\ ~last_call.before.exists
                /\ last_call.after.exists
          /\ ~last_call.supported \/ last_call.before.exists =>
                last_call.after = last_call.before

C19_Witness ==
    /\ IndexInitialized
    /\ last_call.supported
    /\ last_call.before.exists
    /\ last_call.after = last_call.before
    /\ vector_index.created = 1

(***************************************************************************)
(* C20  Bounded retries.  An index query sends each of its query forms at  *)
(* most once, QuerySyntaxes attempts in all, and then returns or raises;   *)
(* it is never left running.  A search call that has begun ends.           *)
(***************************************************************************)
AttemptsBounded ==
    last_call.op = "knn" =>
       /\ last_call.attempts <= QuerySyntaxes
       /\ last_call.raised => last_call.pc = "done"
       /\ last_call.pc = "done" /\ last_call.raised =>
             last_call.attempts \in {0, QuerySyntaxes}

C20_BoundedAttemptsAndTermination ==
    /\ []AttemptsBounded
    /\ KnnRunning ~> (last_call.op = "knn" /\ last_call.pc = "done")
    /\ \A t \in Tasks : (searching[t].pc = "embedding") ~> (searching[t].pc = "done")

C20_Witness ==
    /\ last_call.op = "knn" /\ last_call.pc = "done"
    /\ last_call.raised /\ last_call.attempts = QuerySyntaxes
    /\ \E t \in Tasks : searching[t].pc = "done" /\ searching[t].yielded

(***************************************************************************)
(* C21  Under-indexing is reported, not fatal.  A run of process_document  *)
(* that got as far as chunking the text leaves the document completed,     *)
(* with a record that counts the vectors stored for it, however many of    *)
(* its chunks were vectorized.                                             *)
(***************************************************************************)
Chunked(d) ==
    /\ processing_status[d].status = "queued"
    /\ processing_status'[d].status # "queued"
    /\ issued' # issued

C21_UnderIndexingIsReported ==
    [][\A d \in DocIds :
          Chunked(d) =>
             /\ processing_status'[d].status = "completed"
             /\ documents'[d] # NoRecord
             /\ documents'[d].vectors_generated = Cardinality(KeysOfDoc(vectors', d))]_vars

C21_Witness ==
    \E d \in DocIds :
       /\ processing_status[d].status = "failed"
       /\ documents[d] = NoRecord
       /\ KeysOfDoc(vectors, d) # {}
       /\ stats["documents_processed"] = 0

(***************************************************************************)
(* C22  Bounded latency window.  Whenever an analytics update of a         *)
(* cache-miss search completes, the response-time list holds at most 1000  *)
(* samples, and they are the most recently recorded ones, newest first,    *)
(* whatever the number and the interleaving of the updates.                *)
(***************************************************************************)
UpdateCompleted ==
    \/ \E t \in Tasks : searching[t].pc = "ltrim" /\ searching'[t] = NoTask
    \/ background_tasks' < background_tasks
    \/ calls'.searches > calls.searches /\ last'.status = 200 /\ ~last'.cached

MostRecent(list, recorded) == \A i \in 1..Len(list) : list[i] = recorded - i + 1

C22_BoundedLatencyWindow ==
    [][UpdateCompleted =>
          /\ Len(response_times') <= ResponseTimesEnd + 1
          /\ MostRecent(response_times', stats'["response_times"])]_vars

C22_Witness ==
    /\ Len(response_times) = ResponseTimesEnd + 1
    /\ stats["response_times"] > ResponseTimesEnd + 2
    /\ \A t \in Tasks : searching[t] = NoTask
    /\ background_tasks = 0
    /\ calls.searches > 0

(***************************************************************************)
(* C23  Ranking determinism.  Two executions of search_vectors with the    *)
(* same request over the same stored records return the same result list,  *)
(* in the same order.                                                      *)
(***************************************************************************)
SameSearchTwice ==
    /\ last_call.op = "search_vectors"
    /\ last_call.previous.op = "search_vectors"
    /\ last_call.previous.request = last_call.request
    /\ last_call.previous.store = last_call.store

C23_RankingDeterminism ==
    SameSearchTwice => last_call.results = last_call.previous.results

ResultIds(results) == {results[i].chunk_id : i \in DOMAIN results}

C23_Witness ==
    /\ SameSearchTwice
    /\ last_call.results # last_call.previous.results
    /\ ResultIds(last_call.results) = ResultIds(last_call.previous.results)
    /\ \A i, j \in DOMAIN last_call.results :
          last_call.results[i].similarity_score = last_call.results[j].similarity_score

(***************************************************************************)
(* C24  Results come from the store.  Every result search_vectors returns  *)
(* is the chunk of a record that was in the store it scanned; over an      *)
(* empty store, or one in which no record matches, it returns the empty    *)
(* list, and never a made-up entry.                                        *)
(***************************************************************************)
FromStore(r, store) ==
    \E k \in PresentKeys(store) :
       /\ store[k].chunk_id = r.chunk_id
       /\ store[k].doc_id = r.doc_id
       /\ store[k].content = r.content

Matches(store, req) ==
    {k \in PresentKeys(store) :
        /\ DecodeOk(store[k].vector)
        /\ ~CosineRaises(Embed(req.query), DecodeVector(store[k].vector))
        /\ CalculateCosineSimilarity(Embed(req.query), DecodeVector(store[k].vector))
              >= MinSimilarity}

Qualifying(store, req) ==
    {k \in Matches(store, req) :
        /\ ~(CalculateCosineSimilarity(Embed(req.query), DecodeVector(store[k].vector))
               < req.similarity_threshold)
        /\ req.filters.kind = "doc_id" => store[k].doc_id = req.filters.doc_id}

Searched ==
    /\ calls'.searches > calls.searches
    /\ last'.op = "search" /\ last'.status = 200

C25_LimitAndQualifying ==
    [][Searched =>
          /\ Len(last'.results) <= last'.request.limit
          /\ last'.total_results = Len(last'.results)
          /\ (~last'.cached /\ Cardinality(Qualifying(vectors, last'.request))
                                  < last'.request.limit) =>
                {vectors[k].chunk_id : k \in Qualifying(vectors, last'.request)}
                   = ResultIds(last'.results)]_vars

C25_Witness ==
    /\ last.op = "search" /\ last.status = 200 /\ ~last.cached
    /\ calls.adds = 1 /\ calls.searches = 1
    /\ Len(last.results) = 1 /\ last.total_results = 1 /\ last.request.limit = 2
    /\ Qualifying(vectors, last.request) = {}

(***************************************************************************)
(* C26  Codec round-trip.  For a vector v of the configured length,        *)
(* _deserialize_vector(_serialize_vector(v)) has the length of v and each  *)
(* component is the float32 nearest to the component of v: equal to it     *)
(* where float32 holds it exactly, within half a unit in the last place    *)
(* otherwise.                                                              *)
(***************************************************************************)
WithinFloat32(x, d) ==
    LET e == Exponent(Abs(x))
    IN IF x = 0 \/ e <= FractionBits THEN d = x
       ELSE Abs(d - x) <= Pow2(e - FractionBits) \div 2

C26_CodecRoundTrip ==
    (last_call.op = "serialize" /\ ~last_call.raised) =>
       /\ Len(last_call.deserialized) = Len(last_call.vector)
       /\ \A i \in DOMAIN last_call.vector :
             WithinFloat32(last_call.vector[i], last_call.deserialized[i])

C26_Witness ==
    /\ last_call.op = "serialize" /\ ~last_call.raised
    /\ Len(last_call.vector) = EmbeddingDimensions
    /\ last_call.deserialized # last_call.vector
    /\ \E i \in DOMAIN last_call.vector : last_call.vector[i] < 0

(***************************************************************************)
(* C27  Zero-norm vectors.  The similarity of two vectors one of which has *)
(* norm 0 is exactly 0: the computation does not divide by zero, gives no  *)
(* NaN and does not raise; and a scan over a store that holds an all-zero  *)
(* vector completes, without that record among its results.                *)
(***************************************************************************)
ZeroNorm(v) == Norm(v) = 0

ZeroRecords(store) ==
    {k \in PresentKeys(store) : DecodeOk(store[k].vector)
                                  /\ ZeroNorm(DecodeVector(store[k].vector))}

C27_ZeroNormSimilarityIsZero ==
    /\ (last_call.op = "similarity" /\ (ZeroNorm(last_call.v1) \/ ZeroNorm(last_call.v2))) =>
          last_call.value = 0 /\ ~last_call.raised
    /\ last_call.op = "similarity" => last_call.value # NaN
    /\ last_call.op = "search_vectors" =>
          /\ \A i \in DOMAIN last_call.results :
                /\ last_call.results[i].similarity_score # NaN
                /\ last_call.results[i].chunk_id
                      \notin {last_call.store[k].chunk_id : k \in ZeroRecords(last_call.store)}
          /\ last_call.request.query = ZeroText => last_call.results = <<>>

C27_Witness ==
    /\ last_call.op = "similarity"
    /\ ZeroNorm(last_call.v2) /\ ~ZeroNorm(last_call.v1)
    /\ Len(last_call.v1) = Len(last_call.v2)
    /\ last_call.value = 0

(***************************************************************************)
(* C28  Cache key determinism.  As stated: two requests with the same      *)
(* query text, limit, threshold and filter map, whatever the order of the  *)
(* keys of the filter map, have the same cache key.                        *)
(***************************************************************************)
FilterMap(filters) == {filters.items[i] : i \in DOMAIN filters.items}

SameSearch(q1, q2) ==
    /\ q1.query = q2.query
    /\ q1.limit = q2.limit
    /\ q1.similarity_threshold = q2.similarity_threshold
    /\ q1.filters.present = q2.filters.present
    /\ FilterMap(q1.filters) = FilterMap(q2.filters)

SameShape(q1, q2) ==
    /\ q1.include_content = q2.include_content
    /\ q1.include_metadata = q2.include_metadata

TwoKeys == last_call.op = "cache_key" /\ last_call.previous.op = "cache_key"

C28_SameSearchSameKey ==
    (TwoKeys /\ SameSearch(last_call.query, last_call.previous.query)) =>
        last_call.key = last_call.previous.key

\* C28 amended: the key is a function of all six fields of the request,
\* the two include flags among them, and of nothing else: the order of the
\* keys of the filter map does not change it.
C28_KeyOfAllSixFields ==
    TwoKeys =>
       ((SameSearch(last_call.query, last_call.previous.query)
            /\ SameShape(last_call.query, last_call.previous.query))
        <=> last_call.key = last_call.previous.key)

C28_Witness ==
    /\ TwoKeys
    /\ last_call.query.filters # last_call.previous.query.filters
    /\ last_call.key = last_call.previous.key

(***************************************************************************)
(* C29  Fallback equivalence.  Over the same records, with well-separated  *)
(* similarities, and for the same request, the brute-force path and the    *)
(* indexed path return the same chunk_ids in the same order, with the same *)
(* similarity scores.                                                      *)
(***************************************************************************)
SearchOps == {"search_vectors", "knn_search"}

BothPaths ==
    /\ last_call.op \in SearchOps
    /\ last_call.previous.op \in SearchOps
    /\ last_call.previous.op # last_call.op
    /\ ~last_call.raised /\ ~last_call.previous.raised
    /\ last_call.previous.request = last_call.request
    /\ last_call.previous.store = last_call.store

Ranking(results) ==
    [i \in DOMAIN results |-> <<results[i].chunk_id, results[i].similarity_score>>]

C29_FallbackEquivalence ==
    BothPaths => Ranking(last_call.results) = Ranking(last_call.previous.results)

C29_Witness ==
    /\ BothPaths
    /\ last_call.op = "knn_search" /\ last_call.results = <<>>
    /\ Len(last_call.previous.results) = 2
    /\ Indexed(last_call.store) = {}

(***************************************************************************)
(* C30  Store JSON round-trip.  Once health_check has returned True,       *)
(* get_json(key) returns the data of the last set_json(key, data) that no  *)
(* write or deletion of the key has followed, whatever the connection      *)
(* state of the client.                                                    *)
(***************************************************************************)
RoundTrip ==
    /\ last_call.op = "get_json"
    /\ last_call.written # NoValue
    /\ last_call.written.healthy

C30_JsonRoundTrip ==
    RoundTrip => last_call.returned = last_call.written.data

C30_Witness ==
    /\ RoundTrip
    /\ last_call.client = "mock"
    /\ last_call.returned = NoValue
    /\ store_client.held[last_call.key] = NoValue

(***************************************************************************)
(* C31  delete_document_vectors(doc_id), when the store lists its keys,    *)
(* removes every vector record whose doc_id field equals doc_id and        *)
(* nothing else: records of other documents and values whose doc_id cannot *)
(* be read stay as they were, whatever their place in the listing, and the *)
(* call returns True exactly when it deleted at least one record.  When    *)
(* the listing fails nothing is deleted and the call returns False.        *)
(***************************************************************************)
Readable(rec) == rec # NoRecord /\ rec # WrongType /\ rec.doc_id # Absent

OwnedBy(store, doc_id) ==
    {k \in VectorKeys : Readable(store[k]) /\ store[k].doc_id = doc_id}

DeleteCalled == last_call' # last_call /\ last_call'.op = "delete_document_vectors"

Scanned == last_call.op = "fallback_search"

ScanScore(key) ==
    CalculateCosineSimilarity(
        EmbedWith("openai", "ta"),
        DecodeVector(ScanStore(last_call.stored, last_call.best,
                               last_call.filler)[key].vector))

Returned(key) == \E i \in DOMAIN last_call.results : last_call.results[i].id = key

C32_ExhaustiveScan ==
    Scanned =>
        \A key \in 1..last_call.stored :
            (ScanScore(key) >= MinSimilarity /\ ~Returned(key)) =>
                /\ Len(last_call.results) = last_call.limit
                /\ \A i \in DOMAIN last_call.results :
                       last_call.results[i].similarity >= ScanScore(key)

\* the best record is listed after MaxProcessed others and is not returned
C32_Witness ==
    /\ Scanned
    /\ last_call.stored = MaxProcessed + 1 /\ last_call.best = MaxProcessed + 1
    /\ last_call.filler = "tb" /\ last_call.limit = 1
    /\ Len(last_call.results) = 1
    /\ last_call.results[1].id # last_call.best
    /\ last_call.results[1].similarity < ScanScore(last_call.best)

(***************************************************************************)
(* C33  CacheManager keys include the parameters.  For one namespace and   *)
(* key, values stored with different params lie under different cache      *)
(* keys: get(namespace, key, params) only ever returns a value that was    *)
(* stored with the same params.                                            *)
(***************************************************************************)
C33_ParamsSeparateEntries ==
    (last_call.op = "cache_get" /\ last_call.hit) =>
        last_call.stored_with = last_call.params

\* a short key: the value stored with p1 is returned for p2
C33_Witness ==
    /\ last_call.op = "cache_get" /\ last_call.hit
    /\ last_call.key = "short"
    /\ last_call.params = "p2" /\ last_call.stored_with = "p1"
    /\ ManagerCacheKey("ns", "short", "p1") = ManagerCacheKey("ns", "short", "p2")
    /\ ManagerCacheKey("ns", "long", "p1") # ManagerCacheKey("ns", "long", "p2")

(***************************************************************************)
(* C34  Cleanup after failed processing.  When a run of process_document   *)
(* that found no data of the document in the store fails, at whatever      *)
(* step, the status becomes failed and nothing of the document is left: no *)
(* document record, no membership of doc:index, no chunk index and no      *)
(* vector record.                                                          *)
(***************************************************************************)
NothingOf(d, docs, index, chunk_index, store) ==
    /\ docs[d] = NoRecord
    /\ d \notin index
    /\ chunk_index[d] = NoRecord
    /\ KeysOfDoc(store, d) = {}

ProcessingFailed(d) ==
    /\ processing_status[d].status = "queued"
    /\ processing_status'[d].status = "failed"
    /\ NothingOf(d, documents, doc_index, doc_chunks, vectors)

C34_FailureLeavesNothing ==
    [][\A d \in DocIds :
          ProcessingFailed(d) =>
              NothingOf(d, documents', doc_index', doc_chunks', vectors')]_vars

\* the failed run left the vectors of its first step, and only those
C34_Witness ==
    \E d \in DocIds :
       /\ processing_status[d].status = "failed"
       /\ calls.adds = 0
       /\ documents[d] = NoRecord /\ d \notin doc_index /\ doc_chunks[d] = NoRecord
       /\ Cardinality(KeysOfDoc(vectors, d)) = 2
       /\ \A k \in KeysOfDoc(vectors, d) : k \notin doc_chunk

(***************************************************************************)
(* C35  Processing status progression.  The recorded status of an uploaded *)
(* document only moves one stage forward at a time through queued,         *)
(* validating, saving, extracting, chunking, generating_vectors, storing,  *)
(* generating_vectors, completed, with the progress never decreasing and   *)
(* 100 at completed, or it moves to failed with progress 0.  Nothing       *)
(* follows completed or failed.                                            *)
(***************************************************************************)
Stages ==
    << Status("queued", 0), Status("validating", 5), Status("saving", 10),
       Status("extracting", 25), Status("chunking", 50),
       Status("generating_vectors", 65), Status("storing", 75),
       Status("generating_vectors", 85), Status("completed", 100) >>

Terminal(entry) == entry.status \in {"completed", "failed"}

Forward(old, new) ==
    \E i, j \in DOMAIN Stages :
       /\ Stages[i] = old /\ Stages[j] = new
       /\ j = i + 1
       /\ new.progress >= old.progress

C35_StatusProgression ==
    [][\A d \in DocIds :
          processing_status'[d] # processing_status[d] =>
             /\ ~Terminal(processing_status[d])
             /\ \/ processing_status[d] = NoStatus /\ processing_status'[d] = Stages[1]
                \/ Forward(processing_status[d], processing_status'[d])
                \/ /\ processing_status[d] # NoStatus
                   /\ processing_status'[d] = Status("failed", 0)]_vars

\* one run has failed after storing its vectors, the other is at "storing"
C35_Witness ==
    /\ processing_status["d1"] = Status("failed", 0)
    /\ KeysOfDoc(vectors, "d1") # {}
    /\ processing_status["d2"] = Status("storing", 75)

(***************************************************************************)
(* C36  health_check returns True only when a connection to the real       *)
(* backing store is established; when every connection attempt fails it    *)
(* returns False, so that a startup that requires the store fails and the  *)
(* health endpoint reports unhealthy.                                      *)
(***************************************************************************)
HealthChecked == last_call.op = "health_check"

C36_HealthReflectsRealStore ==
    HealthChecked =>
       (last_call.returned <=> (last_call.connected /\ last_call.reachable))

C36_Witness ==
    /\ HealthChecked
    /\ last_call.returned
    /\ last_call.client = "mock"
    /\ ~last_call.connected
    /\ ~last_call.reachable

(***************************************************************************)
(* C37  After any sequence of search requests, hits and misses in any      *)
(* order, stats:cache_hits <= stats:total_searches, so that the reported   *)
(* cache_misses (total_searches - cache_hits) is never negative and the    *)
(* reported hit rate never exceeds 100%.                                   *)
(***************************************************************************)
CacheMisses == stats["total_searches"] - stats["cache_hits"]

C37_HitsNeverOutnumberSearches == CacheMisses >= 0

C37_Witness ==
    /\ background_tasks = 0
    /\ calls.searches = MaxSearches
    /\ calls.hits = stats["cache_hits"]
    /\ CacheMisses < 0

(***************************************************************************)
(* C38  After any completed sequence of process_document, failed-          *)
(* processing cleanup and delete_document operations, a doc_id is a member *)
(* of doc:index if and only if the record doc:{doc_id} exists.             *)
(***************************************************************************)
C38_IndexMatchesDocuments ==
    \A d \in DocIds : d \in doc_index <=> documents[d] # NoRecord

C38_Witness ==
    \E d, e \in DocIds :
       /\ processing_status[d].status = "failed"
       /\ KeysOfDoc(vectors, d) # {}
       /\ d \notin doc_index
       /\ last_delete.op = "delete" /\ last_delete.doc_id = e /\ last_delete.success
       /\ e \notin doc_index

(***************************************************************************)
(* C39  process_documents_batch returns exactly one entry for each input   *)
(* document, in input order; a document whose processing fails yields an   *)
(* error entry and does not keep the other documents from being            *)
(* processed; and at no time are more than 3 documents in process.         *)
(***************************************************************************)
BatchCalled == last_call.op = "process_documents_batch"

InProcess == {j \in DOMAIN last_call.tasks : last_call.tasks[j].pc # "done"}

EntryOf(entry, doc_data) ==
    IF entry.error THEN entry.filename = doc_data.filename
    ELSE entry.doc_id = doc_data.doc_id

BatchProcessed(doc_data) ==
    doc_data.doc_id # Absent =>
       processing_status[doc_data.doc_id].status \in {"failed", "completed"}

C39_BatchProcessing ==
    BatchCalled =>
       /\ Cardinality(InProcess) <= MaxConcurrentDocs
       /\ last_call.returned =>
             /\ Len(last_call.results) = Len(last_call.documents_data)
             /\ \A k \in DOMAIN last_call.documents_data :
                   /\ EntryOf(last_call.results[k], last_call.documents_data[k])
                   /\ BatchProcessed(last_call.documents_data[k])

C39_Witness ==
    /\ BatchCalled
    /\ last_call.returned
    /\ Len(last_call.documents_data) = MaxDocs
    /\ \A k \in DOMAIN last_call.results : last_call.results[k].error
    /\ \E k \in DOMAIN last_call.documents_data :
          /\ k > 1
          /\ last_call.documents_data[k].doc_id # Absent
          /\ KeysOfDoc(vectors, last_call.documents_data[k].doc_id) # {}

=============================================================================
